---- MODULE Spec2Model ----
(***************************************************************************)
(* A model of the anti_fish scam analyzer: the Flask request handlers of   *)
(* app.py (the five-stage pipeline, its event log, the in-memory store and *)
(* its two JSON snapshot files) and the LinkAnalyzerAgent's per-URL        *)
(* evidence loop.                                                          *)
(*                                                                         *)
(* Python values are modelled as follows.  A dict with string keys that    *)
(* the code reads with .get is a TLA+ record whose DOMAIN is the set of    *)
(* keys present.  The two stores, whose iteration (insertion) order the    *)
(* code depends on, are sequences of [k, v] entries.  None is the value    *)
(* None below.  A file is the sequence of the JSON tokens written to it.   *)
(***************************************************************************)
EXTENDS Integers, Sequences, FiniteSets, TLC

\* ------------------------------------------------------------------ bounds

\* Requests served in one process lifetime, each by a thread of its own (the
\* Flask development server is threaded), so any number of them at once.
MaxRuns == 2

\* Longest URL list handed to LinkAnalyzerAgent.analyze.
MaxUrls == 2

Requests == 1..MaxRuns

\* ------------------------------------------------------------ Python values

None == "<None>"

EmptyDict == [x \in {} |-> None]

\* None where the code expects a dict.
NoneDict == [NoneType |-> TRUE]

\* d.get(k, default)
DictGet(d, k, default) == IF k \in DOMAIN d THEN d[k] ELSE default

\* An insertion-ordered dict: a sequence of [k |-> key, v |-> value].
Keys(d) == {d[i].k : i \in DOMAIN d}

Lookup(d, key) == d[CHOOSE i \in DOMAIN d : d[i].k = key].v

\* d[key] = value: a present key keeps its place, a new one goes last.
SetItem(d, key, value) ==
    IF key \in Keys(d)
    THEN [i \in DOMAIN d |-> IF d[i].k = key THEN [k |-> key, v |-> value] ELSE d[i]]
    ELSE Append(d, [k |-> key, v |-> value])

\* ------------------------------------------------------------------ strings

\* The strings whose characters the code looks at are given letter by letter.
Chars(s) ==
    CASE s = "Phishing" -> <<"P", "h", "i", "s", "h", "i", "n", "g">>
      [] s = "Malware" -> <<"M", "a", "l", "w", "a", "r", "e">>
      [] s = "TechSupport scam" ->
            <<"T", "e", "c", "h", "S", "u", "p", "p", "o", "r", "t", " ", "s", "c", "a", "m">>
      [] s = "AdvanceFee" -> <<"A", "d", "v", "a", "n", "c", "e", "F", "e", "e">>
      [] s = "OTHER" -> <<"O", "T", "H", "E", "R">>
      [] s = "None" -> <<"N", "o", "n", "e">>
      [] s = "phishing" ->
            <<"p", "h", "i", "s", "h", "i", "n", "g">>
      [] s = "pHiShInG malware" ->
            <<"p", "H", "i", "S", "h", "I", "n", "G", " ", "m", "a", "l", "w", "a", "r", "e">>
      [] s = "Malware scam" ->
            <<"M", "a", "l", "w", "a", "r", "e", " ", "s", "c", "a", "m">>
      [] s = "computer virus" ->
            <<"c", "o", "m", "p", "u", "t", "e", "r", " ", "v", "i", "r", "u", "s">>
      [] s = "Virus via social media" ->
            <<"V", "i", "r", "u", "s", " ", "v", "i", "a", " ", "s", "o", "c", "i", "a", "l", " ", "m", "e", "d", "i", "a">>
      [] s = "Romance Scam" ->
            <<"R", "o", "m", "a", "n", "c", "e", " ", "S", "c", "a", "m">>
      [] s = "social engineering" ->
            <<"s", "o", "c", "i", "a", "l", " ", "e", "n", "g", "i", "n", "e", "e", "r", "i", "n", "g">>
      [] s = "Scam then phishing" ->
            <<"S", "c", "a", "m", " ", "t", "h", "e", "n", " ", "p", "h", "i", "s", "h", "i", "n", "g">>
      [] s = "login" ->
            <<"l", "o", "g", "i", "n">>
      [] s = "sign in" ->
            <<"s", "i", "g", "n", " ", "i", "n">>
      [] s = "Login to your account" ->
            <<"L", "o", "g", "i", "n", " ", "t", "o", " ", "y", "o", "u", "r", " ", "a", "c", "c", "o", "u", "n", "t">>
      [] s = "Please Sign In" ->
            <<"P", "l", "e", "a", "s", "e", " ", "S", "i", "g", "n", " ", "I", "n">>
      [] s = "Search our shop" ->
            <<"S", "e", "a", "r", "c", "h", " ", "o", "u", "r", " ", "s", "h", "o", "p">>
      [] s = "Sign in to PayPal" ->
            <<"S", "i", "g", "n", " ", "i", "n", " ", "t", "o", " ", "P", "a", "y", "P", "a", "l">>
      [] s = "paypal" ->
            <<"p", "a", "y", "p", "a", "l">>
      [] s = "google" ->
            <<"g", "o", "o", "g", "l", "e">>
      [] s = "microsoft" ->
            <<"m", "i", "c", "r", "o", "s", "o", "f", "t">>
      [] s = "apple" ->
            <<"a", "p", "p", "l", "e">>
      [] s = "facebook" ->
            <<"f", "a", "c", "e", "b", "o", "o", "k">>
      [] s = "instagram" ->
            <<"i", "n", "s", "t", "a", "g", "r", "a", "m">>
      [] s = "netflix" ->
            <<"n", "e", "t", "f", "l", "i", "x">>
      [] s = "amazon" ->
            <<"a", "m", "a", "z", "o", "n">>
      [] s = "bank" ->
            <<"b", "a", "n", "k">>
      [] s = "chase" ->
            <<"c", "h", "a", "s", "e">>
      [] s = "wells fargo" ->
            <<"w", "e", "l", "l", "s", " ", "f", "a", "r", "g", "o">>
      [] s = "" ->
            <<>>
      [] s = "Virus" -> <<"V", "i", "r", "u", "s">>
      [] s = "Scam" -> <<"S", "c", "a", "m">>
      [] s = "Social" -> <<"S", "o", "c", "i", "a", "l">>
      [] s = "Social malware" ->
            <<"S", "o", "c", "i", "a", "l", " ", "m", "a", "l", "w", "a", "r", "e">>

LowerCase == <<"a", "b", "c", "d", "e", "f", "g", "h", "i", "j", "k", "l", "m",
               "n", "o", "p", "q", "r", "s", "t", "u", "v", "w", "x", "y", "z">>

UpperCase == <<"A", "B", "C", "D", "E", "F", "G", "H", "I", "J", "K", "L", "M",
               "N", "O", "P", "Q", "R", "S", "T", "U", "V", "W", "X", "Y", "Z">>

\* str.upper()
upper(cs) ==
    [i \in DOMAIN cs |->
        IF \E j \in DOMAIN LowerCase : LowerCase[j] = cs[i]
        THEN UpperCase[CHOOSE j \in DOMAIN LowerCase : LowerCase[j] = cs[i]]
        ELSE cs[i]]

UpperLetters == {UpperCase[j] : j \in DOMAIN UpperCase}

\* str.lower()
lower(cs) ==
    LET lowered == [i \in DOMAIN cs |->
                       IF cs[i] \in UpperLetters
                       THEN LowerCase[CHOOSE j \in DOMAIN UpperCase : UpperCase[j] = cs[i]]
                       ELSE cs[i]]
    IN  SubSeq(lowered, 1, Len(cs))

\* sub in cs
Contains(sub, cs) ==
    \E i \in 0..(Len(cs) - Len(sub)) : \A k \in DOMAIN sub : cs[i + k] = sub[k]

\* --------------------------------------------------- orchestrator's helpers

\* A mutant of _map_threat_type: the malware terms are looked for first.
_map_threat_type_malware_first(scam_type) ==
    LET scam_type_upper == upper(Chars(scam_type))
    IN  IF Contains(<<"M", "A", "L", "W", "A", "R", "E">>, scam_type_upper)
           \/ Contains(<<"V", "I", "R", "U", "S">>, scam_type_upper)
        THEN "FAKE_WEBSITE_MALICIOUS_LINK"
        ELSE IF Contains(<<"P", "H", "I", "S", "H", "I", "N", "G">>, scam_type_upper)
        THEN "FAKE_EMAIL_PHISHING"
        ELSE IF Contains(<<"S", "C", "A", "M">>, scam_type_upper)
                \/ Contains(<<"S", "O", "C", "I", "A", "L">>, scam_type_upper)
        THEN "HIDDEN_FRAUD_RING_SOCIAL_SCAM"
        ELSE "OTHER"

_map_threat_type(scam_type) ==
    LET scam_type_upper == upper(Chars(scam_type))
    IN  IF Contains(<<"P", "H", "I", "S", "H", "I", "N", "G">>, scam_type_upper)
        THEN "FAKE_EMAIL_PHISHING"
        ELSE IF Contains(<<"M", "A", "L", "W", "A", "R", "E">>, scam_type_upper)
                \/ Contains(<<"V", "I", "R", "U", "S">>, scam_type_upper)
        THEN "FAKE_WEBSITE_MALICIOUS_LINK"
        ELSE IF Contains(<<"S", "C", "A", "M">>, scam_type_upper)
                \/ Contains(<<"S", "O", "C", "I", "A", "L">>, scam_type_upper)
        THEN "HIDDEN_FRAUD_RING_SOCIAL_SCAM"
        ELSE "OTHER"

\* A mutant of _generate_recommendations: a score of 70 is high.
_generate_recommendations_from_70(risk_assessment) ==
    LET score == DictGet(risk_assessment, "risk_score", 0)
    IN  IF score >= 70
        THEN << [title |-> "Do not click any links", priority |-> "high"],
                [title |-> "Block the sender", priority |-> "high"] >>
        ELSE IF score > 30
        THEN << [title |-> "Verify sender identity", priority |-> "med"] >>
        ELSE << [title |-> "No immediate action needed", priority |-> "low"] >>

_generate_recommendations(risk_assessment) ==
    LET score == DictGet(risk_assessment, "risk_score", 0)
    IN  IF score > 70
        THEN << [title |-> "Do not click any links", priority |-> "high"],
                [title |-> "Block the sender", priority |-> "high"] >>
        ELSE IF score > 30
        THEN << [title |-> "Verify sender identity", priority |-> "med"] >>
        ELSE << [title |-> "No immediate action needed", priority |-> "low"] >>

\* ----------------------------------------------------- evidence source tools

\* The URLs followed.  The last one has an unbalanced bracket in its host.
Urls == {"http://a.com/login", "http://b.org/pay", "http://[bad"}

\* urllib.parse.urlparse(url): the netloc, or ValueError ("Invalid IPv6 URL")
\* for a host with an unbalanced bracket.
urlparse(url) ==
    CASE url = "http://a.com/login" -> [raises |-> FALSE, netloc |-> "a.com"]
      [] url = "http://b.org/pay" -> [raises |-> FALSE, netloc |-> "b.org"]
      [] url = "http://[bad" -> [raises |-> TRUE, netloc |-> ""]

\* What the network does to one call: the tool answers ("ok"), the tool's own
\* operation fails ("error": timeout, DNS failure, unregistered domain), or the
\* MCP endpoint itself cannot be reached ("down").
NetOutcomes == {"ok", "error", "down"}

\* A fetched page: the sequence of its elements; the empty page is <<>>.
LoginPage == << [tag |-> "form", password |-> TRUE, text |-> "Sign in to PayPal"] >>

\* A mutant of fetch_url: no try/except, so what httpx raises leaves the tool.
fetch_url_unguarded(url, net) ==
    IF net = "ok"
    THEN [final_url |-> url, redirect_chain |-> <<>>, status_code |-> 200,
          html_content |-> LoginPage]
    ELSE [raises |-> "ConnectTimeout"]

\* fetch_url: the success payload, or {"url", "error"}.
fetch_url(url, net) ==
    IF net = "ok"
    THEN [final_url |-> url, redirect_chain |-> <<>>, status_code |-> 200,
          html_content |-> LoginPage]
    ELSE [url |-> url, error |-> "fetch failed"]

\* The form loop of extract_page_signals, with its break at the first form
\* that holds a password input.
RECURSIVE form_signals(_, _)
form_signals(forms, login_form) ==
    IF forms = <<>>
    THEN [login_form_detected |-> login_form, password_field_detected |-> FALSE]
    ELSE IF Head(forms).password
    THEN [login_form_detected |-> TRUE, password_field_detected |-> TRUE]
    ELSE LET text == lower(Chars(Head(forms).text))
         IN  form_signals(Tail(forms),
                          \/ login_form
                          \/ Contains(Chars("login"), text)
                          \/ Contains(Chars("sign in"), text))

common_brands == <<"paypal", "google", "microsoft", "apple", "facebook", "instagram",
                   "netflix", "amazon", "bank", "chase", "wells fargo">>

\* The brands of common_brands that occur in the text of the page.
brand_keywords(html) ==
    LET text_lower == {lower(Chars(html[n].text)) : n \in DOMAIN html}
    IN  SelectSeq(common_brands,
                  LAMBDA brand : \E text \in text_lower : Contains(Chars(brand), text))

\* extract_page_signals(url, html_content): with no content it fetches the
\* page itself, and returns {"error"} when that fetch fails.
extract_page_signals(url, html_content, net) ==
    LET fetch_result == fetch_url(url, net)
        html == IF html_content = <<>>
                THEN DictGet(fetch_result, "html_content", <<>>)
                ELSE html_content
        forms == SelectSeq(html, LAMBDA el : el.tag = "form")
    IN  IF html_content = <<>> /\ "error" \in DOMAIN fetch_result
        THEN [error |-> fetch_result.error]
        ELSE [login_form_detected |-> form_signals(forms, FALSE).login_form_detected,
              password_field_detected |-> form_signals(forms, FALSE).password_field_detected,
              brand_keywords_found |-> brand_keywords(html)]

\* whois_lookup: the success payload, or {"domain", "error"}.
whois_lookup(domain, net) ==
    IF net = "ok"
    THEN [domain |-> domain, age_days |-> 12, registrar |-> "NameCheap",
          privacy_protection |-> TRUE]
    ELSE [domain |-> domain, error |-> "whois failed"]

\* The record types get_dns_records asks for, in its order.
RecordTypes == <<"A", "MX", "NS", "TXT">>

\* get_dns_records: for each record type the answers, or [] when resolving
\* it raised (no such domain, no answer, timeout).
get_dns_records(domain, resolved) ==
    [n \in DOMAIN RecordTypes |->
        [k |-> RecordTypes[n],
         v |-> IF RecordTypes[n] \in resolved THEN <<"answer">> ELSE <<>>]]

\* The MCP route handlers of app.py: a missing argument is answered with an
\* error payload, anything the tool raises likewise.
handle_fetch(payload, net) ==
    IF payload.url = "" THEN [error |-> "url is required"]
    ELSE fetch_url(payload.url, net)

handle_signals(payload, net) ==
    IF payload.url = "" THEN [error |-> "url is required"]
    ELSE extract_page_signals(payload.url, payload.html_content, net)

handle_whois(payload, net) ==
    IF payload.domain = "" THEN [error |-> "domain is required"]
    ELSE whois_lookup(payload.domain, net)

\* ------------------------------------------------------- LinkAnalyzerAgent

\* A payload that stands for an exception leaving the call.
Raised(result) == "raises" \in DOMAIN result

\* A mutant of _call_mcp: no try/except, so what httpx raises leaves the call.
_call_mcp_unguarded(endpoint, payload, net) ==
    IF net = "down"
    THEN [raises |-> "ConnectError"]
    ELSE CASE endpoint = "fetch" -> handle_fetch(payload, net)
           [] endpoint = "signals" -> handle_signals(payload, net)
           [] endpoint = "whois" -> handle_whois(payload, net)

\* _call_mcp: the endpoint's JSON answer, or {"error"} for whatever httpx raised.
_call_mcp(endpoint, payload, net) ==
    IF net = "down"
    THEN [error |-> "ConnectError"]
    ELSE CASE endpoint = "fetch" -> handle_fetch(payload, net)
           [] endpoint = "signals" -> handle_signals(payload, net)
           [] endpoint = "whois" -> handle_whois(payload, net)

\* The error strings of the three inputs, in the prompt's order.
input_errors(fetch_result, signals_result, whois_result) ==
    (IF "error" \in DOMAIN fetch_result THEN <<fetch_result.error>> ELSE <<>>)
    \o (IF "error" \in DOMAIN signals_result THEN <<signals_result.error>> ELSE <<>>)
    \o (IF "error" \in DOMAIN whois_result THEN <<whois_result.error>> ELSE <<>>)

\* The answer the prompt asks the model for: the facts of the three inputs and
\* their error strings under technical_errors.
gemini_analysis(url, fetch_result, signals_result, whois_result) ==
    [agent |-> "LinkAnalyzerAgent",
     url |-> url,
     facts |-> [
        domain_age_days |-> DictGet(whois_result, "age_days", None),
        registrar |-> DictGet(whois_result, "registrar", None),
        redirect_chain |-> DictGet(fetch_result, "redirect_chain", <<>>),
        login_form_detected |-> DictGet(signals_result, "login_form_detected", FALSE),
        password_field_detected |->
            DictGet(signals_result, "password_field_detected", FALSE),
        reachability |->
            IF "error" \in DOMAIN fetch_result THEN "unreachable" ELSE "reachable",
        technical_errors |-> input_errors(fetch_result, signals_result, whois_result)]]

\* The except branch of analyze: the entry appended when the model call fails
\* or answers with something json.loads rejects.
fallback_finding(url, fetch_result, signals_result, whois_result) ==
    [url |-> url,
     error |-> "model call failed",
     raw_evidence |-> [fetch |-> fetch_result, signals |-> signals_result,
                       whois |-> whois_result]]

\* A mutant of finding: a failed model call drops the URL.
finding_or_nothing(url, fetch_result, signals_result, whois_result, llm) ==
    IF llm = "ok"
    THEN <<gemini_analysis(url, fetch_result, signals_result, whois_result)>>
    ELSE <<>>

\* What one iteration appends to findings (lines 92-106).
finding(url, fetch_result, signals_result, whois_result, llm) ==
    IF llm = "ok"
    THEN <<gemini_analysis(url, fetch_result, signals_result, whois_result)>>
    ELSE <<fallback_finding(url, fetch_result, signals_result, whois_result)>>

\* What the network and the model do during one iteration of the loop.
UrlOutcomes ==
    [fetch : NetOutcomes, signals : NetOutcomes, whois : NetOutcomes,
     llm : {"ok", "error"}]

\* One iteration of the loop for url under outcome o: what is appended, or
\* raises when a call or urlparse does.
analyze_url(url, o) ==
    LET fetch_result == _call_mcp("fetch", [url |-> url], o.fetch)
        signals_result ==
            _call_mcp("signals",
                      [url |-> url,
                       html_content |-> DictGet(fetch_result, "html_content", <<>>)],
                      o.signals)
        parsed == urlparse(url)
        whois_result == _call_mcp("whois", [domain |-> parsed.netloc], o.whois)
    IN  IF Raised(fetch_result) \/ Raised(signals_result) \/ parsed.raises
           \/ Raised(whois_result)
        THEN [raises |-> TRUE, findings |-> <<>>]
        ELSE [raises |-> FALSE,
              findings |-> finding(url, fetch_result, signals_result, whois_result,
                                   o.llm)]

\* LinkAnalyzerAgent.analyze(urls) under the outcomes os, one per URL.
RECURSIVE analyze(_, _)
analyze(urls, os) ==
    IF urls = <<>>
    THEN [raises |-> FALSE, findings |-> <<>>]
    ELSE LET first == analyze_url(Head(urls), Head(os))
             rest == analyze(Tail(urls), Tail(os))
         IN  IF first.raises \/ rest.raises
             THEN [raises |-> TRUE, findings |-> <<>>]
             ELSE [raises |-> FALSE, findings |-> first.findings \o rest.findings]

\* ------------------------------------------------------------ collaborators

Stages == <<"IngestionAgent", "ExtractorAgent", "LinkAnalyzerAgent", "ScoringAgent",
            "ReportAgent">>

\* What IngestionAgent.process can return (a MessageArtifact; clean_text is
\* Optional).  It raises when the model call or the parse fails.
Artifacts ==
    { [urls |-> <<"http://a.com/login">>, clean_text |-> "Please verify your account"],
      [urls |-> <<"http://[bad">>, clean_text |-> "Click here"],
      [urls |-> <<>>, clean_text |-> None] }

\* What ExtractorAgent.analyze can return: the indicators, or {"error"} when
\* the answer does not parse.  It raises when the model call itself fails.
Indicators ==
    { [error |-> "Expecting value"],
      [brand_impersonation |-> [detected |-> TRUE, brand_name |-> "PayPal"]],
      [brand_impersonation |-> NoneDict] }

\* What ScoringAgent.calculate_score can return: the assessment, or {"error"}
\* for any failure of the model call or of the parse.
RiskAssessments ==
    { [error |-> "model call failed"],
      [risk_score |-> 85, scam_type |-> "Phishing"],
      [risk_score |-> 40, scam_type |-> None] }

\* What ReportAgent.generate_report can return: the report, or the text of
\* the error for any failure of the model call.
ReportError == "Error generating report"

Reports == {"# Scam Risk Analysis Report", ReportError}

\* ------------------------------------------------------------------- state

VARIABLES
    ANALYSES_DB,   \* id -> record, in insertion order
    EVENTS_DB,     \* id -> list of events, in insertion order
    disk,          \* the two snapshot files: what each holds, token by token
    pc,            \* where each request's thread is
    frame,         \* run_pipeline's locals, per request
    dump,          \* save_data's open file and dict iterator, per request
    persist_log,   \* what save_data printed, per request
    la,            \* LinkAnalyzerAgent.analyze's frame, run on its own
    reply,         \* what the last read route answered
    uuid,          \* the id uuid4 gives each request's run
    clock          \* what datetime.now() reads: the host's local wall clock

vars == <<ANALYSES_DB, EVENTS_DB, disk, pc, frame, dump, persist_log, la, reply, uuid, clock>>

store_vars == <<ANALYSES_DB, EVENTS_DB, disk, pc, frame, dump, persist_log, reply, uuid, clock>>

\* What a read route leaves alone besides the two stores.
run_vars == <<disk, pc, frame, dump, persist_log, la, uuid, clock>>

\* analysis_id = str(uuid.uuid4()), in request r's run.
analysis_id(r) == uuid[r]

\* The ids uuid4 gives are distinct.
FreshIds == [r \in Requests |-> r]

ANALYSES_LOG_FILE == "analyses_log.json"

EVENTS_LOG_FILE == "events_log.json"

NoDump == [used |-> 0, idx |-> 0, pos |-> 0]

LaIdle == [pc |-> "idle"]

NoReply == [route |-> "none"]

\* An empty store, no snapshot on disk, no request received yet.
Init ==
    /\ clock = 0
    /\ ANALYSES_DB = <<>>
    /\ EVENTS_DB = <<>>
    /\ disk = [f \in {ANALYSES_LOG_FILE, EVENTS_LOG_FILE} |-> <<>>]
    /\ pc = [r \in Requests |-> "new"]
    /\ frame = [r \in Requests |-> EmptyDict]
    /\ dump = [r \in Requests |-> NoDump]
    /\ persist_log = [r \in Requests |-> ""]
    /\ la = LaIdle
    /\ reply = NoReply
    /\ uuid = FreshIds

\* ------------------------------------------------------------------ events

\* event = {"timestamp": datetime.now().isoformat(), "agentName": ..., ...}
Event(agent_name, action, details) ==
    [timestamp |-> clock, agentName |-> agent_name, action |-> action,
     details |-> details]

\* A mutant of log_event: the event goes to the front of the list.
log_event_front(db, id, agent_name, action, details) ==
    SetItem(db, id, <<Event(agent_name, action, details)>> \o Lookup(db, id))

\* log_event: EVENTS_DB[analysis_id].append(event)
log_event(db, id, agent_name, action, details) ==
    SetItem(db, id, Append(Lookup(db, id), Event(agent_name, action, details)))

StageIndex(stage) == CHOOSE i \in DOMAIN Stages : Stages[i] = stage

\* A mutant of on_completed: the next stage is announced before this one is
\* logged as completed.
on_completed_eager(db, id, stage, details) ==
    IF StageIndex(stage) < Len(Stages)
    THEN log_event(log_event(db, id, Stages[StageIndex(stage) + 1], "started", ""),
                   id, stage, "completed", details)
    ELSE log_event(db, id, stage, "completed", details)

\* A mutant of on_completed: the Scoring stage is not announced.
on_completed_silent(db, id, stage, details) ==
    IF StageIndex(stage) < Len(Stages) /\ Stages[StageIndex(stage) + 1] # "ScoringAgent"
    THEN log_event(log_event(db, id, stage, "completed", details),
                   id, Stages[StageIndex(stage) + 1], "started", "")
    ELSE log_event(db, id, stage, "completed", details)

\* The two log_event calls between one stage's call and the next one's: the
\* stage completed, the next stage started.
on_completed(db, id, stage, details) ==
    IF StageIndex(stage) < Len(Stages)
    THEN log_event(log_event(db, id, stage, "completed", details),
                   id, Stages[StageIndex(stage) + 1], "started", "")
    ELSE log_event(db, id, stage, "completed", details)

\* A mutant of on_exception: the failure is not logged.
on_exception_unlogged(db, id, error) == db

\* The except branch of run_pipeline.
on_exception(db, id, error) == log_event(db, id, "Orchestrator", "failed", error)

\* ------------------------------------------------------------- run_pipeline

\* The first expression of the record's dict display that raises, if any:
\* scam_type.upper() on None, clean_text[:200] on None, .get on a null
\* brand_impersonation.
assemble_error(artifact, indicators, risk_assessment) ==
    IF DictGet(risk_assessment, "scam_type", "OTHER") = None
    THEN "AttributeError: 'NoneType' object has no attribute 'upper'"
    ELSE IF artifact.clean_text = None
    THEN "TypeError: 'NoneType' object is not subscriptable"
    ELSE IF DictGet(indicators, "brand_impersonation", EmptyDict) = NoneDict
    THEN "AttributeError: 'NoneType' object has no attribute 'get'"
    ELSE "none"

\* A mutant of analysis_result: the record is stored as failed.
analysis_result_failed(id, artifact, indicators, link_findings, risk_assessment, report_text) ==
    [id |-> id,
     status |-> "failed",
     threatScore |-> DictGet(risk_assessment, "risk_score", 0),
     category |-> _map_threat_type(DictGet(risk_assessment, "scam_type", "OTHER")),
     userSummary |-> report_text,
     recommendedActions |->
        IF DictGet(risk_assessment, "recommended_actions", <<>>) # <<>>
        THEN risk_assessment.recommended_actions
        ELSE _generate_recommendations(risk_assessment),
     safePreview |-> artifact.clean_text,
     impersonatedBrand |->
        DictGet(DictGet(indicators, "brand_impersonation", EmptyDict), "brand_name", None),
     mas_artifacts |-> [indicators |-> indicators,
                        link_findings |-> link_findings,
                        risk_assessment |-> risk_assessment]]

\* The analysis_result of lines 150-191.
analysis_result(id, artifact, indicators, link_findings, risk_assessment, report_text) ==
    [id |-> id,
     status |-> "completed",
     threatScore |-> DictGet(risk_assessment, "risk_score", 0),
     category |-> _map_threat_type(DictGet(risk_assessment, "scam_type", "OTHER")),
     userSummary |-> report_text,
     recommendedActions |->
        IF DictGet(risk_assessment, "recommended_actions", <<>>) # <<>>
        THEN risk_assessment.recommended_actions
        ELSE _generate_recommendations(risk_assessment),
     safePreview |-> artifact.clean_text,
     impersonatedBrand |->
        DictGet(DictGet(indicators, "brand_impersonation", EmptyDict), "brand_name", None),
     mas_artifacts |-> [indicators |-> indicators,
                        link_findings |-> link_findings,
                        risk_assessment |-> risk_assessment]]

\* What the pipeline keeps of the findings: the URL of each.
Digest(findings) == [i \in DOMAIN findings |-> findings[i].url]

\* The run is left by the except branch: the failure is logged and re-raised,
\* and the route answers 500.
Raise(r, events, error) ==
    /\ EVENTS_DB' = on_exception(events, analysis_id(r), error)
    /\ pc' = [pc EXCEPT ![r] = "raised"]
    /\ frame' = [frame EXCEPT ![r] = EmptyDict]
    /\ UNCHANGED <<ANALYSES_DB, disk, dump, persist_log, la, reply, uuid, clock>>

\* A stage returned: its output is kept, and the stage is logged as completed
\* and the next one as started.
Return(r, stage, key, output) ==
    /\ EVENTS_DB' = on_completed(EVENTS_DB, analysis_id(r), stage, "output")
    /\ pc' = [pc EXCEPT ![r] = Stages[StageIndex(stage) + 1]]
    /\ frame' = [frame EXCEPT ![r] = [k \in DOMAIN @ \cup {key} |->
                                        IF k = key THEN output ELSE @[k]]]
    /\ UNCHANGED <<ANALYSES_DB, disk, dump, persist_log, la, reply, uuid, clock>>

\* Requests arrive one after the other; each is served by its own thread.
Arrived(r) == pc[r] = "new" /\ \A q \in Requests : q < r => pc[q] # "new"

\* analyze_email with no text: 400, before the pipeline.
Reject(r) ==
    /\ Arrived(r)
    /\ pc' = [pc EXCEPT ![r] = "rejected"]
    /\ UNCHANGED <<ANALYSES_DB, EVENTS_DB, disk, frame, dump, persist_log, la, reply, uuid, clock>>

\* The route calls run_pipeline: a fresh id, its empty event list, and the
\* first stage logged as started.
Start(r) ==
    /\ Arrived(r)
    /\ EVENTS_DB' = log_event(SetItem(EVENTS_DB, analysis_id(r), <<>>), analysis_id(r),
                              Stages[1], "started", "")
    /\ pc' = [pc EXCEPT ![r] = Stages[1]]
    /\ UNCHANGED <<ANALYSES_DB, disk, frame, dump, persist_log, la, reply, uuid, clock>>

Ingestion(r) ==
    /\ pc[r] = "IngestionAgent"
    /\ \/ \E artifact \in Artifacts : Return(r, "IngestionAgent", "artifact", artifact)
       \/ Raise(r, EVENTS_DB, "ingestion failed")

Extractor(r) ==
    /\ pc[r] = "ExtractorAgent"
    /\ \/ \E indicators \in Indicators :
            Return(r, "ExtractorAgent", "indicators", indicators)
       \/ Raise(r, EVENTS_DB, "extractor model call failed")

LinkAnalyzer(r) ==
    /\ pc[r] = "LinkAnalyzerAgent"
    /\ \E os \in [DOMAIN frame[r].artifact.urls -> UrlOutcomes] :
          LET result == analyze(frame[r].artifact.urls, os)
          IN  IF result.raises
              THEN Raise(r, EVENTS_DB, "ValueError: Invalid IPv6 URL")
              ELSE Return(r, "LinkAnalyzerAgent", "link_findings",
                          Digest(result.findings))

Scoring(r) ==
    /\ pc[r] = "ScoringAgent"
    /\ \E risk_assessment \in RiskAssessments :
          Return(r, "ScoringAgent", "risk_assessment", risk_assessment)

\* The report stage returns; the record is assembled and put in the store,
\* unless assembling it raises.
Report(r) ==
    /\ pc[r] = "ReportAgent"
    /\ \E report_text \in Reports :
          LET f == frame[r]
              id == analysis_id(r)
              logged == on_completed(EVENTS_DB, id, "ReportAgent", "output")
              error == assemble_error(f.artifact, f.indicators, f.risk_assessment)
          IN  IF error # "none"
              THEN Raise(r, logged, error)
              ELSE /\ EVENTS_DB' = logged
                   /\ ANALYSES_DB' =
                        SetItem(ANALYSES_DB, id,
                                analysis_result(id, f.artifact, f.indicators,
                                                f.link_findings, f.risk_assessment,
                                                report_text))
                   /\ pc' = [pc EXCEPT ![r] = "save_open_analyses"]
                   /\ frame' = [frame EXCEPT ![r] = EmptyDict]
                   /\ UNCHANGED <<disk, dump, persist_log, la, reply, uuid, clock>>

\* ---------------------------------------------------------------- save_data

\* The tokens json.dump writes: the braces of the top-level object and one
\* token per key with its value.  A hole is what a write past the end of a
\* truncated file leaves before it.
OpenBrace == [t |-> "{"]

CloseBrace == [t |-> "}"]

Hole == [t |-> "hole"]

\* The JSON text of a value and back: None is written as null.
json_dumps(value) == IF value = None THEN "null" ELSE value

json_loads(text) == IF text = "null" THEN None ELSE text

\* A record as json.dump writes it, and as json.load reads it back.
record_to_json(r) == [r EXCEPT !.impersonatedBrand = json_dumps(@),
                               !.safePreview = json_dumps(@)]

record_from_json(j) == [j EXCEPT !.impersonatedBrand = json_loads(@),
                                 !.safePreview = json_loads(@)]

EntryToken(key, value) == [t |-> "entry", k |-> key, v |-> value]

\* f.write(token) through a handle at offset pos (0-based) of a file that may
\* have been truncated under it.
write_at(content, pos, token) ==
    [i \in 1..(IF pos + 1 > Len(content) THEN pos + 1 ELSE Len(content)) |->
        IF i = pos + 1 THEN token
        ELSE IF i <= Len(content) THEN content[i]
        ELSE Hole]

SavePcs == {"save_open_analyses", "save_dump_analyses", "save_close_analyses",
            "save_open_events", "save_dump_events", "save_close_events"}

\* A mutant of Saved: a failed write leaves run_pipeline by an exception.
Saved_or_raised(r, line) ==
    /\ pc' = [pc EXCEPT ![r] = IF line = "Saved" THEN "ok" ELSE "raised"]
    /\ dump' = [dump EXCEPT ![r] = NoDump]
    /\ persist_log' = [persist_log EXCEPT ![r] = line]

\* save_data is left: run_pipeline returns the record and the route answers 200.
Saved(r, line) ==
    /\ pc' = [pc EXCEPT ![r] = "ok"]
    /\ dump' = [dump EXCEPT ![r] = NoDump]
    /\ persist_log' = [persist_log EXCEPT ![r] = line]

\* A mutant of opened: the file is opened for appending.
opened_append(content) == Append(content, OpenBrace)

\* open(file, 'w') and the first token of json.dump.
opened(content) == <<OpenBrace>>

\* with open(file, 'w'): the file is truncated; json.dump writes the opening
\* brace and starts iterating the dict.
SaveOpen(r, at, file, db, then) ==
    /\ pc[r] = at
    /\ disk' = [disk EXCEPT ![file] = opened(@)]
    /\ dump' = [dump EXCEPT ![r] = [used |-> Len(db), idx |-> 0,
                                    pos |-> Len(opened(disk[file]))]]
    /\ pc' = [pc EXCEPT ![r] = then]
    /\ UNCHANGED <<ANALYSES_DB, EVENTS_DB, frame, persist_log, la, reply, uuid, clock>>

\* One step of the dict iteration inside json.dump: RuntimeError when the
\* dict changed size since the iteration began, else the next key and its
\* value are written.  After the last one the iterator is exhausted.
SaveDump(r, at, file, db, tokens, then) ==
    /\ pc[r] = at
    /\ UNCHANGED <<ANALYSES_DB, EVENTS_DB, frame, la, reply, uuid, clock>>
    /\ IF Len(db) # dump[r].used
       THEN /\ Saved(r, "Error saving data")
            /\ UNCHANGED disk
       ELSE /\ disk' = [disk EXCEPT ![file] =
                            write_at(@, dump[r].pos, tokens[dump[r].idx + 1])]
            /\ dump' = [dump EXCEPT ![r].idx = @ + 1, ![r].pos = @ + 1]
            /\ pc' = [pc EXCEPT ![r] = IF dump[r].idx + 1 = dump[r].used
                                       THEN then ELSE at]
            /\ UNCHANGED persist_log

\* The closing brace; the file is closed.
SaveCloseAnalyses(r) ==
    /\ pc[r] = "save_close_analyses"
    /\ disk' = [disk EXCEPT ![ANALYSES_LOG_FILE] = write_at(@, dump[r].pos, CloseBrace)]
    /\ pc' = [pc EXCEPT ![r] = "save_open_events"]
    /\ dump' = [dump EXCEPT ![r] = NoDump]
    /\ UNCHANGED <<ANALYSES_DB, EVENTS_DB, frame, persist_log, la, reply, uuid, clock>>

SaveCloseEvents(r) ==
    /\ pc[r] = "save_close_events"
    /\ disk' = [disk EXCEPT ![EVENTS_LOG_FILE] = write_at(@, dump[r].pos, CloseBrace)]
    /\ Saved(r, "Saved")
    /\ UNCHANGED <<ANALYSES_DB, EVENTS_DB, frame, la, reply, uuid, clock>>

\* Any open or write may fail (disk full, permissions): the except branch
\* prints the error and save_data returns.
SaveFail(r) ==
    /\ pc[r] \in SavePcs
    /\ Saved(r, "Error saving data")
    /\ UNCHANGED <<ANALYSES_DB, EVENTS_DB, disk, frame, la, reply, uuid, clock>>

save_data(r) ==
    \/ SaveOpen(r, "save_open_analyses", ANALYSES_LOG_FILE, ANALYSES_DB,
                "save_dump_analyses")
    \/ SaveDump(r, "save_dump_analyses", ANALYSES_LOG_FILE, ANALYSES_DB,
                [i \in DOMAIN ANALYSES_DB |->
                    EntryToken(ANALYSES_DB[i].k, record_to_json(ANALYSES_DB[i].v))],
                "save_close_analyses")
    \/ SaveCloseAnalyses(r)
    \/ SaveOpen(r, "save_open_events", EVENTS_LOG_FILE, EVENTS_DB, "save_dump_events")
    \/ SaveDump(r, "save_dump_events", EVENTS_LOG_FILE, EVENTS_DB,
                [i \in DOMAIN EVENTS_DB |-> EntryToken(EVENTS_DB[i].k, EVENTS_DB[i].v)],
                "save_close_events")
    \/ SaveCloseEvents(r)
    \/ SaveFail(r)

\* ---------------------------------------------------------------- load_data

\* The dict of a sequence of parsed entries: a repeated key keeps its first
\* place and takes its last value.
RECURSIVE dict_of(_)
dict_of(entries) ==
    IF entries = <<>> THEN <<>>
    ELSE SetItem(dict_of(SubSeq(entries, 1, Len(entries) - 1)),
                 entries[Len(entries)].k, entries[Len(entries)].v)

\* json.load of a file: the dict it holds, or the failure to parse it.  A
\* file parses when it is an opening brace, entries, and a closing brace.
json_load(content) ==
    IF /\ Len(content) >= 2
       /\ content[1] = OpenBrace
       /\ content[Len(content)] = CloseBrace
       /\ \A i \in 2..(Len(content) - 1) : content[i].t = "entry"
    THEN [raises |-> FALSE,
          value |-> dict_of(SubSeq(content, 2, Len(content) - 1))]
    ELSE [raises |-> TRUE, value |-> <<>>]

\* -------------------------------------------- LinkAnalyzerAgent.analyze, run

\* All URL lists of length at most MaxUrls.
UrlLists == UNION {[1..n -> Urls] : n \in 0..MaxUrls}

NotCalled == [not_called |-> TRUE]

\* analyze(urls) is entered: findings = [], and the loop is at its first URL.
la_enter(urls) ==
    [pc |-> IF urls = <<>> THEN "returned" ELSE "fetch",
     urls |-> urls, i |-> 1, findings |-> <<>>, evidence |-> <<>>,
     fetch_result |-> NotCalled, signals_result |-> NotCalled,
     whois_result |-> NotCalled]

la_url == la.urls[la.i]

\* 1. Fetch URL
LAFetch ==
    /\ la.pc = "fetch"
    /\ \E net \in NetOutcomes :
          LET fetch_result == _call_mcp("fetch", [url |-> la_url], net)
          IN  la' = IF Raised(fetch_result)
                    THEN [la EXCEPT !.pc = "raised"]
                    ELSE [la EXCEPT !.pc = "signals", !.fetch_result = fetch_result]
    /\ UNCHANGED store_vars

\* 2. Extract Signals
LASignals ==
    /\ la.pc = "signals"
    /\ \E net \in NetOutcomes :
          LET signals_result ==
                _call_mcp("signals",
                          [url |-> la_url,
                           html_content |-> DictGet(la.fetch_result, "html_content", <<>>)],
                          net)
          IN  la' = IF Raised(signals_result)
                    THEN [la EXCEPT !.pc = "raised"]
                    ELSE [la EXCEPT !.pc = "whois", !.signals_result = signals_result]
    /\ UNCHANGED store_vars

\* 3. Whois Lookup (on domain)
LAWhois ==
    /\ la.pc = "whois"
    /\ \E net \in NetOutcomes :
          LET parsed == urlparse(la_url)
              whois_result == _call_mcp("whois", [domain |-> parsed.netloc], net)
          IN  la' = IF parsed.raises \/ Raised(whois_result)
                    THEN [la EXCEPT !.pc = "raised"]
                    ELSE [la EXCEPT !.pc = "gemini", !.whois_result = whois_result]
    /\ UNCHANGED store_vars

\* 4. Gemini Analysis of Technical Evidence: the answer, or the fallback
\* entry, is appended, and the loop goes to the next URL or analyze returns.
LAGemini ==
    /\ la.pc = "gemini"
    /\ \E llm \in {"ok", "error"} :
          la' = [la EXCEPT
                    !.findings = @ \o finding(la_url, la.fetch_result,
                                              la.signals_result, la.whois_result, llm),
                    !.evidence = Append(@, [fetch |-> la.fetch_result,
                                            signals |-> la.signals_result,
                                            whois |-> la.whois_result]),
                    !.i = @ + 1,
                    !.pc = IF la.i = Len(la.urls) THEN "returned" ELSE "fetch",
                    !.fetch_result = NotCalled,
                    !.signals_result = NotCalled,
                    !.whois_result = NotCalled]
    /\ UNCHANGED store_vars

InitLA ==
    /\ clock = 0
    /\ ANALYSES_DB = <<>>
    /\ EVENTS_DB = <<>>
    /\ disk = [f \in {ANALYSES_LOG_FILE, EVENTS_LOG_FILE} |-> <<>>]
    /\ pc = [r \in Requests |-> "new"]
    /\ frame = [r \in Requests |-> EmptyDict]
    /\ dump = [r \in Requests |-> NoDump]
    /\ persist_log = [r \in Requests |-> ""]
    /\ \E urls \in UrlLists : la = la_enter(urls)
    /\ reply = NoReply
    /\ uuid = FreshIds

NextLA == LAFetch \/ LASignals \/ LAWhois \/ LAGemini

\* LinkAnalyzerAgent.analyze called once, on any list of URLs.
SpecLA == InitLA /\ [][NextLA]_vars

\* ------------------------------------------------------------ specification

run_pipeline(r) ==
    \/ Start(r)
    \/ Ingestion(r)
    \/ Extractor(r)
    \/ LinkAnalyzer(r)
    \/ Scoring(r)
    \/ Report(r)
    \/ save_data(r)

Next == \E r \in Requests : Reject(r) \/ run_pipeline(r)

Spec == Init /\ [][Next]_vars

\* ---------------------------------------------------------------- load_data

\* What load_data leaves in a store for a snapshot file: its contents, or the
\* empty dict when the file is missing or does not parse.
loaded(content) == IF json_load(content).raises THEN <<>> ELSE json_load(content).value

load_analyses ==
    [i \in DOMAIN loaded(disk[ANALYSES_LOG_FILE]) |->
        [k |-> loaded(disk[ANALYSES_LOG_FILE])[i].k,
         v |-> record_from_json(loaded(disk[ANALYSES_LOG_FILE])[i].v)]]

load_events == loaded(disk[EVENTS_LOG_FILE])

\* ------------------------------------------------------------------- claims

events_of(id) == Lookup(EVENTS_DB, id)

Is(event, agent_name, action) == event.agentName = agent_name /\ event.action = action

Positions(events, agent_name, action) ==
    {i \in DOMAIN events : Is(events[i], agent_name, action)}

\* The started events of the given stages occur in events, in that order.
RECURSIVE StartedInOrder(_, _)
StartedInOrder(events, stages) ==
    IF stages = <<>> THEN TRUE
    ELSE IF events = <<>> THEN FALSE
    ELSE IF Is(Head(events), Head(stages), "started")
    THEN StartedInOrder(Tail(events), Tail(stages))
    ELSE StartedInOrder(Tail(events), stages)

C2_StagesSequentialNeverRetried ==
    \A e \in DOMAIN EVENTS_DB :
        LET events == EVENTS_DB[e].v
            started(s) == Positions(events, Stages[s], "started")
            completed(s) == Positions(events, Stages[s], "completed")
        IN  \A s \in DOMAIN Stages :
                /\ Cardinality(started(s)) <= 1
                /\ Cardinality(completed(s)) <= 1
                /\ \A c \in completed(s) : \E b \in started(s) : b < c
                /\ s > 1 => \A b \in started(s) : \E c \in completed(s - 1) : c < b

\* A run has been through all five stages while another has started.
C2_Witness ==
    /\ Len(EVENTS_DB) = 2
    /\ \E e \in DOMAIN EVENTS_DB :
          Cardinality({i \in DOMAIN EVENTS_DB[e].v :
                          EVENTS_DB[e].v[i].action = "completed"}) = Len(Stages)

\* C3: when an error reaches the except branch of run_pipeline, an
\* Orchestrator 'failed' event is the last event of that run's list, the run
\* ends raising, no record of that id is in the store, and the step that ends
\* the run leaves the record store as it was (so list() and the statistics,
\* which read nothing else, are the same before and after).
C3_FailedRunLeavesStore ==
    /\ [](\A r \in Requests :
            pc[r] = "raised" =>
                /\ analysis_id(r) \in Keys(EVENTS_DB)
                /\ Is(events_of(analysis_id(r))[Len(events_of(analysis_id(r)))],
                      "Orchestrator", "failed")
                /\ analysis_id(r) \notin Keys(ANALYSES_DB))
    /\ [][\A r \in Requests :
            (pc[r] # "raised" /\ pc'[r] = "raised") =>
                ANALYSES_DB' = ANALYSES_DB]_vars

\* A run has ended in the except branch while the store holds the record of
\* another run.
C3_Witness ==
    \E r \in Requests :
        /\ pc[r] = "raised"
        /\ Len(ANALYSES_DB) = 1
        /\ Len(events_of(analysis_id(r))) > 2

\* C4: a failure of any stage's collaborator (the scoring model call, the
\* extraction model call or its parse, the report generator) aborts the
\* analysis: no record is stored for a run in which one of them failed.
C4_StageFailureAborts ==
    \A i \in DOMAIN ANALYSES_DB :
        LET record == ANALYSES_DB[i].v
        IN  /\ "error" \notin DOMAIN record.mas_artifacts.risk_assessment
            /\ "error" \notin DOMAIN record.mas_artifacts.indicators
            /\ record.userSummary # ReportError

\* The stage a failed run was in: started, and never completed.
FailingStages(events) ==
    {s \in DOMAIN Stages : /\ Positions(events, Stages[s], "started") # {}
                           /\ Positions(events, Stages[s], "completed") = {}}

\* C5: when a stage fails, a 'failed' event attributed to that stage is
\* logged after the stage's 'started' event, besides the Orchestrator's.
C5_StageFailedEvent ==
    \A e \in DOMAIN EVENTS_DB :
        LET events == EVENTS_DB[e].v
        IN  Positions(events, "Orchestrator", "failed") # {} =>
                \A s \in FailingStages(events) :
                    \E b \in Positions(events, Stages[s], "started") :
                        \E f \in Positions(events, Stages[s], "failed") : b < f

\* C9: rewrites of the snapshot files exclude one another, and a snapshot
\* file that has been written is, whenever no rewrite is under way, the
\* complete serialisation of a store.
C9_SnapshotRewriteExclusive ==
    /\ Cardinality({r \in Requests : pc[r] \in SavePcs}) <= 1
    /\ {r \in Requests : pc[r] \in SavePcs} = {} =>
          \A file \in DOMAIN disk :
              disk[file] # <<>> => ~json_load(disk[file]).raises

\* No request is being served.
Quiescent == \A r \in Requests : pc[r] \in {"new", "ok", "raised", "rejected"}

\* C10: once every run that stored a record has written the snapshots
\* without an I/O error, load_data gives back the record store, with the same
\* ids and field values, and the event list of each stored record.
C10_WriteThroughRoundTrip ==
    (/\ Quiescent
     /\ \A r \in Requests : pc[r] = "ok" => persist_log[r] = "Saved") =>
        /\ load_analyses = ANALYSES_DB
        /\ \A id \in Keys(ANALYSES_DB) :
              /\ id \in Keys(load_events)
              /\ Lookup(load_events, id) = events_of(id)

\* C6: for every list of URLs, analyze returns, and returns one entry per
\* URL, in the order of the URLs.
C6_OneEntryPerUrlInOrder ==
    la.pc \in {"returned", "raised"} =>
        /\ la.pc = "returned"
        /\ Len(la.findings) = Len(la.urls)
        /\ \A j \in DOMAIN la.findings : la.findings[j].url = la.urls[j]

Failed(result) == "error" \in DOMAIN result

technical_errors(entry) ==
    DictGet(DictGet(entry, "facts", EmptyDict), "technical_errors", <<>>)

registrar(entry) == DictGet(DictGet(entry, "facts", EmptyDict), "registrar", None)

\* C8: the entry of a URL for which a tool call failed has technical_errors
\* non-empty; when the fetch failed and the whois lookup did not, it holds
\* the error of the fetch, and the registrar is not null.
C8_TechnicalErrorsReported ==
    \A j \in DOMAIN la.findings :
        LET given == la.evidence[j]
            entry == la.findings[j]
        IN  /\ (Failed(given.fetch) \/ Failed(given.signals) \/ Failed(given.whois)) =>
                  technical_errors(entry) # <<>>
            /\ (Failed(given.fetch) /\ ~Failed(given.whois)) =>
                  /\ \E k \in DOMAIN technical_errors(entry) :
                        technical_errors(entry)[k] = given.fetch.error
                  /\ registrar(entry) # None

\* ------------------------------------------------------------- read routes

\* Time is counted in ticks, TicksPerDay to the calendar day.  A datetime is
\* its tick; its isoformat string orders as the tick does.
TicksPerDay == 2

\* dt.strftime('%Y-%m-%d'): the calendar day of a datetime.
strftime_date(dt) == dt \div TicksPerDay

\* dt - timedelta(days=i)
minus_days(dt, i) == dt - i * TicksPerDay

\* list(d.values())
values(d) == [i \in DOMAIN d |-> d[i].v]

\* One step of a stable sort on createdAt, greatest first: item goes after
\* the items that do not come later than it.
insert_reverse(items, item) ==
    LET n == Cardinality({j \in DOMAIN items : items[j].createdAt >= item.createdAt})
    IN  SubSeq(items, 1, n) \o <<item>> \o SubSeq(items, n + 1, Len(items))

\* items.sort(key=lambda x: x['createdAt'], reverse=True)
RECURSIVE sort_reverse(_)
sort_reverse(items) ==
    IF items = <<>> THEN <<>>
    ELSE insert_reverse(sort_reverse(SubSeq(items, 1, Len(items) - 1)),
                        items[Len(items)])

\* A mutant of list_analyses: the items are left in the store's order.
list_analyses_unsorted(db) ==
    [status |-> 200, items |-> values(db), hasMore |-> FALSE, total |-> Len(values(db))]

\* GET /api/analyses
list_analyses(db) ==
    LET items == sort_reverse(values(db))
    IN  [status |-> 200, items |-> items, hasMore |-> FALSE, total |-> Len(items)]

\* GET /api/analyses/<id>
get_analysis(db, id) ==
    IF id \in Keys(db)
    THEN [status |-> 200, item |-> Lookup(db, id)]
    ELSE [status |-> 404, error |-> "Not found"]

\* A mutant of is_high_risk: the threshold is excluded.
is_high_risk_above(i) == DictGet(i, "threatScore", 0) > 70

\* i.get('threatScore', 0) >= 70
is_high_risk(i) == DictGet(i, "threatScore", 0) >= 70

\* sum(i.get('threatScore', 0) for i in items)
RECURSIVE sum_scores(_)
sum_scores(items) ==
    IF items = <<>> THEN 0
    ELSE DictGet(Head(items), "threatScore", 0) + sum_scores(Tail(items))

\* A quotient a / b of the code's float arithmetic, kept exact.
Ratio(a, b) == [num |-> a, den |-> b]

\* A mutant of int: the quotient is rounded up.
int_ceil(q) == -((-q.num) \div q.den)

\* int(x) of a float: truncation towards zero.
int(q) == IF q.num >= 0 THEN q.num \div q.den ELSE -((-q.num) \div q.den)

\* The loop of lines 353-356: category -> count, in the order in which the
\* categories are first met.
RECURSIVE count_categories(_)
count_categories(items) ==
    IF items = <<>> THEN <<>>
    ELSE LET categories == count_categories(SubSeq(items, 1, Len(items) - 1))
             cat == DictGet(items[Len(items)], "category", "OTHER")
         IN  SetItem(categories, cat,
                     (IF cat \in Keys(categories) THEN Lookup(categories, cat) ELSE 0) + 1)

\* A mutant of max_key: the last of the keys with the greatest value.
max_key_last(d) ==
    d[CHOOSE i \in DOMAIN d : /\ \A j \in DOMAIN d : d[j].v <= d[i].v
                              /\ \A j \in DOMAIN d : j > i => d[j].v < d[i].v].k

\* max(d, key=d.get): the first of the keys with the greatest value.
max_key(d) ==
    d[CHOOSE i \in DOMAIN d : /\ \A j \in DOMAIN d : d[j].v <= d[i].v
                              /\ \A j \in DOMAIN d : j < i => d[j].v < d[i].v].k

\* A mutant of trend_window: the seven days that end yesterday.
trend_window_early(now) ==
    [n \in 1..7 |-> [k |-> strftime_date(minus_days(now, 8 - n)),
                     v |-> [count |-> 0, highRiskCount |-> 0]]]

\* The loop of lines 364-366: the days from six days ago to today, at zero.
trend_window(now) ==
    [n \in 1..7 |-> [k |-> strftime_date(minus_days(now, 7 - n)),
                     v |-> [count |-> 0, highRiskCount |-> 0]]]

\* The loop of lines 368-377 over the items.
RECURSIVE fill_trend(_, _)
fill_trend(trend_map, items) ==
    IF items = <<>> THEN trend_map
    ELSE LET i == Head(items)
             date_key == strftime_date(i.createdAt)
             day == Lookup(trend_map, date_key)
         IN  fill_trend(
                IF "createdAt" \notin DOMAIN i
                THEN trend_map   \* i['createdAt'] raises: except: pass
                ELSE IF date_key \in Keys(trend_map)
                THEN SetItem(trend_map, date_key,
                             [count |-> day.count + 1,
                              highRiskCount |->
                                 IF is_high_risk(i)
                                 THEN day.highRiskCount + 1
                                 ELSE day.highRiskCount])
                ELSE trend_map,
                Tail(items))

\* A mutant of percentage: integer division.
percentage_floor(count, total) ==
    IF total > 0 THEN Ratio((count * 100) \div total, 1) ELSE Ratio(0, 1)

\* (count / total * 100) if total > 0 else 0
percentage(count, total) == IF total > 0 THEN Ratio(count * 100, total) ELSE Ratio(0, 1)

\* The loop of lines 396-403: brand -> count and total score, in the order in
\* which the brands are first met.  A brand that is None, empty or "None" is
\* skipped.
RECURSIVE count_brands(_)
count_brands(items) ==
    IF items = <<>> THEN <<>>
    ELSE LET brands_stats == count_brands(SubSeq(items, 1, Len(items) - 1))
             i == items[Len(items)]
             brand == DictGet(i, "impersonatedBrand", None)
             stats == IF brand \in Keys(brands_stats) THEN Lookup(brands_stats, brand)
                      ELSE [count |-> 0, total_score |-> 0]
         IN  IF brand # None /\ brand # "" /\ brand # "None"
             THEN SetItem(brands_stats, brand,
                          [count |-> stats.count + 1,
                           total_score |-> stats.total_score
                                           + DictGet(i, "threatScore", 0)])
             ELSE brands_stats

\* One step of the stable sort: entry goes after the entries with a count at
\* least its own.
insert_by_count(entries, entry) ==
    LET before == Cardinality({n \in DOMAIN entries : entries[n].v.count >= entry.v.count})
    IN  SubSeq(entries, 1, before) \o <<entry>> \o SubSeq(entries, before + 1, Len(entries))

\* sorted(entries, key=count, reverse=True): by count, descending, and entries
\* with the same count in the order they had.
RECURSIVE sorted_by_count(_)
sorted_by_count(entries) ==
    IF entries = <<>> THEN <<>>
    ELSE insert_by_count(sorted_by_count(SubSeq(entries, 1, Len(entries) - 1)),
                         entries[Len(entries)])

\* entries[:5]
first_five(entries) == SubSeq(entries, 1, IF Len(entries) < 5 THEN Len(entries) ELSE 5)

\* A mutant of sorted_brands: the first five in insertion order.
sorted_brands_unsorted(brands_stats) == first_five(brands_stats)

\* sorted(brands_stats.items(), key=count, reverse=True)[:5]
sorted_brands(brands_stats) == first_five(sorted_by_count(brands_stats))

\* Lines 394-413: the five brands met most often, each with its mean score.
top_brands(items) ==
    LET sorted == sorted_brands(count_brands(items))
    IN  [n \in DOMAIN sorted |->
            [name |-> sorted[n].k,
             count |-> sorted[n].v.count,
             avgThreatScore |-> Ratio(sorted[n].v.total_score, sorted[n].v.count)]]

\* GET /api/stats at time now.
get_stats(db, now) ==
    LET total == Len(db)
        items == values(db)
        high_risk == Cardinality({i \in DOMAIN items : is_high_risk(items[i])})
        avg_score == IF total > 0 THEN Ratio(sum_scores(items), total) ELSE Ratio(0, 1)
        categories == count_categories(items)
        top_category == IF categories # <<>> THEN max_key(categories) ELSE "OTHER"
        trend_map == fill_trend(trend_window(now), items)
    IN  [status |-> 200,
         totalAnalyses |-> total,
         highRiskCount |-> high_risk,
         topCategory |-> top_category,
         avgThreatScore |-> int(avg_score),
         trendData |-> [n \in DOMAIN trend_map |->
                          [date |-> trend_map[n].k,
                           count |-> trend_map[n].v.count,
                           highRiskCount |-> trend_map[n].v.highRiskCount]],
         categoryBreakdown |-> [n \in DOMAIN categories |->
                                  [category |-> categories[n].k,
                                   count |-> categories[n].v,
                                   percentage |-> percentage(categories[n].v, total)]],
         topBrands |-> top_brands(items)]

\* A mutant of dict_get: setdefault, which stores the default under a key
\* that is missing.
dict_setdefault(d, key, default) ==
    [value |-> IF key \in Keys(d) THEN Lookup(d, key) ELSE default,
     d |-> IF key \in Keys(d) THEN d ELSE SetItem(d, key, default)]

\* d.get(key, default) on a store: the value, and the store after the call.
dict_get(d, key, default) ==
    [value |-> IF key \in Keys(d) THEN Lookup(d, key) ELSE default, d |-> d]

\* GET /api/analyses/<id>/events: the events of id, one SSE frame each.
get_analysis_events(existing) == [status |-> 200, frames |-> existing]

\* ------------------------------------------------- the read routes, on a store

\* Most records in a store the read routes are tried on.
MaxRecords == 3

\* The days are numbered so that today is day 7: the window of the statistics
\* is days 1 to 7, day 0 is seven days ago and day 8 is tomorrow.
Nows == {7 * TicksPerDay, 7 * TicksPerDay + 1}

CreatedAts == {0, TicksPerDay, 7 * TicksPerDay + 1, 8 * TicksPerDay}

Scores == {69, 70}

Categories == {"FAKE_EMAIL_PHISHING", "OTHER"}

\* The stores of at most MaxRecords records, as run_pipeline and load_data
\* can leave them: in any order of createdAt.
StoredRecords ==
    UNION {[1..n -> [createdAt : CreatedAts, threatScore : Scores, category : Categories]] :
              n \in 0..MaxRecords}

store_of(records) ==
    [i \in DOMAIN records |->
        [k |-> i, v |-> [id |-> i, status |-> "completed",
                         createdAt |-> records[i].createdAt,
                         threatScore |-> records[i].threatScore,
                         category |-> records[i].category]]]

InitRead ==
    /\ clock = 0
    /\ \E records \in StoredRecords : ANALYSES_DB = store_of(records)
    /\ EVENTS_DB = [i \in DOMAIN ANALYSES_DB |->
                       [k |-> ANALYSES_DB[i].k,
                        v |-> <<Event("IngestionAgent", "started", "")>>]]
    /\ disk = [f \in {ANALYSES_LOG_FILE, EVENTS_LOG_FILE} |-> <<>>]
    /\ pc = [r \in Requests |-> "new"]
    /\ frame = [r \in Requests |-> EmptyDict]
    /\ dump = [r \in Requests |-> NoDump]
    /\ persist_log = [r \in Requests |-> ""]
    /\ la = LaIdle
    /\ reply = NoReply
    /\ uuid = FreshIds

\* The ids asked for: those of the store, and one it does not hold.
AskedIds == 1..(MaxRecords + 1)

ListAnalyses ==
    /\ reply' = [route |-> "list", arg |-> 0, body |-> list_analyses(ANALYSES_DB)]
    /\ UNCHANGED <<ANALYSES_DB, EVENTS_DB, run_vars>>

GetAnalysis ==
    /\ \E id \in AskedIds :
          reply' = [route |-> "get", arg |-> id, body |-> get_analysis(ANALYSES_DB, id)]
    /\ UNCHANGED <<ANALYSES_DB, EVENTS_DB, run_vars>>

GetStats ==
    /\ \E now \in Nows :
          reply' = [route |-> "stats", arg |-> now, body |-> get_stats(ANALYSES_DB, now)]
    /\ UNCHANGED <<ANALYSES_DB, EVENTS_DB, run_vars>>

GetAnalysisEvents ==
    /\ \E id \in AskedIds :
          LET existing == dict_get(EVENTS_DB, id, <<>>)
          IN  /\ reply' = [route |-> "events", arg |-> id,
                           body |-> get_analysis_events(existing.value)]
              /\ EVENTS_DB' = existing.d
    /\ UNCHANGED <<ANALYSES_DB, run_vars>>

NextRead == ListAnalyses \/ GetAnalysis \/ GetStats \/ GetAnalysisEvents

\* The read routes called, in any order, on any store.
SpecRead == InitRead /\ [][NextRead]_vars

\* --------------------------------------------------- claims on the read routes

created_day(record) == record.createdAt \div TicksPerDay

\* C14: list() answers with every record of the store exactly once, each
\* item's createdAt at least that of the item after it, and a total that is
\* the number of records in the store.
C14_ListAllByCreatedAtDescending ==
    reply.route = "list" =>
        LET items == reply.body.items
        IN  /\ Len(items) = Len(ANALYSES_DB)
            /\ \A i \in DOMAIN ANALYSES_DB :
                  Cardinality({j \in DOMAIN items : items[j] = ANALYSES_DB[i].v}) = 1
            /\ \A j \in 1..(Len(items) - 1) : items[j].createdAt >= items[j + 1].createdAt
            /\ reply.body.total = Len(ANALYSES_DB)

\* list() has answered on a store of three records that were not stored in
\* the order of the answer, two of them created at the same time.
C14_Witness ==
    /\ reply.route = "list"
    /\ Len(ANALYSES_DB) = 3
    /\ reply.body.items # values(ANALYSES_DB)
    /\ \E i, j \in DOMAIN ANALYSES_DB :
          i # j /\ ANALYSES_DB[i].v.createdAt = ANALYSES_DB[j].v.createdAt

\* C15: a call of get, list, the statistics or the event replay leaves the
\* record store and the event store as they were; get(id) answers with the
\* stored record, and a repeated get(id) or list() on the same store gives
\* the same answer.
C15_ReadsIdempotentNoSideEffect ==
    /\ [](reply.route = "get" /\ reply.arg \in Keys(ANALYSES_DB) =>
            reply.body.item = Lookup(ANALYSES_DB, reply.arg))
    /\ [][/\ reply'.route \in {"get", "list", "stats", "events"} =>
                ANALYSES_DB' = ANALYSES_DB /\ EVENTS_DB' = EVENTS_DB
          /\ (/\ reply'.route \in {"get", "list"}
              /\ reply'.route = reply.route
              /\ reply'.arg = reply.arg
              /\ ANALYSES_DB' = ANALYSES_DB) => reply'.body = reply.body]_vars

\* The events of an id that the stores do not hold have been replayed, on
\* stores that hold two analyses.
C15_Witness ==
    /\ reply.route = "events"
    /\ reply.arg \notin Keys(EVENTS_DB)
    /\ reply.body.frames = <<>>
    /\ Len(ANALYSES_DB) = 2
    /\ Len(EVENTS_DB) = 2

\* The sum of the threat scores of the store.
ScoreTotal == sum_scores(values(ANALYSES_DB))

\* C16 as stated: avgThreatScore is the arithmetic mean of the threat scores,
\* the sum divided by the count, and 0 when the store is empty.
C16_AvgIsArithmeticMean ==
    reply.route = "stats" =>
        IF Len(ANALYSES_DB) = 0
        THEN reply.body.avgThreatScore = 0
        ELSE reply.body.avgThreatScore * Len(ANALYSES_DB) = ScoreTotal

\* C16, amended: avgThreatScore is the arithmetic mean of the threat scores
\* with its fraction dropped (the greatest integer not above the mean, the
\* scores being non-negative), and 0 when the store is empty.
C16_AvgIsTruncatedMean ==
    reply.route = "stats" =>
        IF Len(ANALYSES_DB) = 0
        THEN reply.body.avgThreatScore = 0
        ELSE /\ reply.body.avgThreatScore * Len(ANALYSES_DB) <= ScoreTotal
             /\ ScoreTotal < (reply.body.avgThreatScore + 1) * Len(ANALYSES_DB)

\* The statistics have been computed on a store whose mean is not a whole
\* number.
C16_Witness ==
    /\ reply.route = "stats"
    /\ Len(ANALYSES_DB) = 2
    /\ ScoreTotal = 139
    /\ reply.body.avgThreatScore = 69

\* C17: totalAnalyses is the number of records and highRiskCount the number
\* of records whose threatScore is 70 or more; on the empty store
\* totalAnalyses and avgThreatScore are 0 and trendData has exactly seven
\* entries, all with count zero.
C17_TotalsAndHighRisk ==
    reply.route = "stats" =>
        /\ reply.body.totalAnalyses = Len(ANALYSES_DB)
        /\ reply.body.highRiskCount =
              Cardinality({i \in DOMAIN ANALYSES_DB : ANALYSES_DB[i].v.threatScore >= 70})
        /\ Len(ANALYSES_DB) = 0 =>
              /\ reply.body.totalAnalyses = 0
              /\ reply.body.avgThreatScore = 0
              /\ Len(reply.body.trendData) = 7
              /\ \A n \in DOMAIN reply.body.trendData : reply.body.trendData[n].count = 0

\* The statistics have been computed on a store that holds a record with
\* score 70 and one with score 69.
C17_Witness ==
    /\ reply.route = "stats"
    /\ \E i, j \in DOMAIN ANALYSES_DB :
          ANALYSES_DB[i].v.threatScore = 70 /\ ANALYSES_DB[j].v.threatScore = 69
    /\ reply.body.highRiskCount = 1

\* The number of records of a category in the store.
CategoryCount(cat) ==
    Cardinality({i \in DOMAIN ANALYSES_DB : ANALYSES_DB[i].v.category = cat})

\* C18: the counts of categoryBreakdown add up to totalAnalyses, no category
\* has two entries, each entry's count is the number of records of its
\* category, and each percentage is count / total * 100.
C18_CategoryBreakdown ==
    reply.route = "stats" =>
        LET breakdown == reply.body.categoryBreakdown
            counted == {breakdown[n].category : n \in DOMAIN breakdown}
        IN  /\ Cardinality(counted) = Len(breakdown)
            /\ \A cat \in Categories : CategoryCount(cat) > 0 <=> cat \in counted
            /\ \A n \in DOMAIN breakdown :
                  /\ breakdown[n].count = CategoryCount(breakdown[n].category)
                  /\ breakdown[n].percentage.num * reply.body.totalAnalyses =
                        breakdown[n].count * 100 * breakdown[n].percentage.den
                  /\ breakdown[n].percentage.den > 0
            /\ reply.body.totalAnalyses = Len(ANALYSES_DB)

\* The statistics have been computed on three records, two of one category
\* and one of another.
C18_Witness ==
    /\ reply.route = "stats"
    /\ Len(reply.body.categoryBreakdown) = 2
    /\ reply.body.categoryBreakdown[1].count = 1
    /\ reply.body.categoryBreakdown[2].count = 2

\* Where the store's iteration first meets a category.
FirstMet(cat) ==
    CHOOSE i \in DOMAIN ANALYSES_DB :
        /\ ANALYSES_DB[i].v.category = cat
        /\ \A j \in DOMAIN ANALYSES_DB : j < i => ANALYSES_DB[j].v.category # cat

\* C19: topCategory is a category with the most records; of several with the
\* most, it is the one the store's iteration meets first; on the empty store
\* it is 'OTHER'.
C19_TopCategory ==
    reply.route = "stats" =>
        IF Len(ANALYSES_DB) = 0
        THEN reply.body.topCategory = "OTHER"
        ELSE LET top == reply.body.topCategory
             IN  /\ CategoryCount(top) > 0
                 /\ \A cat \in Categories : CategoryCount(cat) <= CategoryCount(top)
                 /\ \A cat \in Categories :
                       (cat # top /\ CategoryCount(cat) = CategoryCount(top)) =>
                           FirstMet(top) < FirstMet(cat)

\* Two categories have one record each, and the answer is the one met first.
C19_Witness ==
    /\ reply.route = "stats"
    /\ Len(ANALYSES_DB) = 2
    /\ ANALYSES_DB[1].v.category # ANALYSES_DB[2].v.category
    /\ reply.body.topCategory = ANALYSES_DB[1].v.category

\* C20: trendData has exactly seven entries, for the days from six days ago
\* to today in that order; an entry's count is the number of records created
\* on its day and its highRiskCount the number of those with score 70 or
\* more, so a record of any other day (seven days ago, tomorrow) is counted
\* nowhere; highRiskCount is at most count, and the counts add up to at most
\* totalAnalyses.
C20_TrendWindow ==
    reply.route = "stats" =>
        LET trend == reply.body.trendData
            today == reply.arg \div TicksPerDay
            on(day) == {i \in DOMAIN ANALYSES_DB : created_day(ANALYSES_DB[i].v) = day}
            window == {trend[n].date : n \in DOMAIN trend}
        IN  /\ Len(trend) = 7
            /\ \A n \in DOMAIN trend :
                  /\ trend[n].date = today - 7 + n
                  /\ trend[n].count = Cardinality(on(trend[n].date))
                  /\ trend[n].highRiskCount =
                        Cardinality({i \in on(trend[n].date) :
                                        ANALYSES_DB[i].v.threatScore >= 70})
                  /\ trend[n].highRiskCount <= trend[n].count
            /\ Cardinality({i \in DOMAIN ANALYSES_DB :
                               created_day(ANALYSES_DB[i].v) \in window})
                  <= reply.body.totalAnalyses
            /\ today - 7 \notin window /\ today + 1 \notin window

\* The statistics have been computed at the first instant of today on a
\* store with a record created exactly seven days before, one created six
\* days before, and one created tomorrow: only the second is counted.
C20_Witness ==
    /\ reply.route = "stats"
    /\ reply.arg = 7 * TicksPerDay
    /\ Len(ANALYSES_DB) = 3
    /\ \E i \in DOMAIN ANALYSES_DB : ANALYSES_DB[i].v.createdAt = reply.arg - 7 * TicksPerDay
    /\ \E i \in DOMAIN ANALYSES_DB : ANALYSES_DB[i].v.createdAt = reply.arg - 6 * TicksPerDay
    /\ \E i \in DOMAIN ANALYSES_DB : ANALYSES_DB[i].v.createdAt = 8 * TicksPerDay
    /\ reply.body.trendData[1].count = 1
    /\ \A n \in 2..7 : reply.body.trendData[n].count = 0

\* ------------------------------------------------- claims on the persistence

\* C12: a run whose snapshot write failed still returns its record, which is
\* in the store and is what get(id) answers with, and no 'failed' event is
\* logged for it.
C12_WriteFailureKeepsRecord ==
    \A r \in Requests :
        persist_log[r] = "Error saving data" =>
            /\ pc[r] = "ok"
            /\ analysis_id(r) \in Keys(ANALYSES_DB)
            /\ get_analysis(ANALYSES_DB, analysis_id(r)).status = 200
            /\ get_analysis(ANALYSES_DB, analysis_id(r)).item.id = analysis_id(r)
            /\ \A i \in DOMAIN events_of(analysis_id(r)) :
                  events_of(analysis_id(r))[i].action # "failed"

\* A run's write has failed after the analyses file was truncated, and the
\* run has returned.
C12_Witness ==
    \E r \in Requests :
        /\ persist_log[r] = "Error saving data"
        /\ pc[r] = "ok"
        /\ disk[ANALYSES_LOG_FILE] = <<OpenBrace>>
        /\ disk[EVENTS_LOG_FILE] = <<>>

\* ------------------------------------------------------ ids that may repeat

\* C13: a record is created once and never overwritten or changed: no step,
\* an insert under an id that is already present included, changes a stored
\* record or the event list of a stored record.
C13_RecordsNeverOverwritten ==
    [][\A i \in DOMAIN ANALYSES_DB :
          /\ i \in DOMAIN ANALYSES_DB'
          /\ ANALYSES_DB'[i] = ANALYSES_DB[i]
          /\ ANALYSES_DB[i].k \in Keys(EVENTS_DB')
          /\ Lookup(EVENTS_DB', ANALYSES_DB[i].k) = Lookup(EVENTS_DB, ANALYSES_DB[i].k)]_vars

\* ------------------------------------------------------------------ startup

\* How often the process is started again in one behaviour.
MaxRestarts == 1

\* A mutant of load_file: no os.path.exists, no try: what open and json.load
\* raise leaves load_data.
load_file_unguarded(content) ==
    [raises |-> json_load(content).raises,
     value |-> json_load(content).value,
     line |-> IF json_load(content).raises THEN "" ELSE "Loaded"]

\* One half of load_data, on a store that is still the empty dict of the
\* module: a missing file (the empty content) leaves it alone, a file that
\* does not load sets it to {}, a file that loads replaces it.  The line is
\* what is printed.
load_file(content) ==
    IF content = <<>>
    THEN [raises |-> FALSE, value |-> <<>>, line |-> ""]
    ELSE IF json_load(content).raises
         THEN [raises |-> FALSE, value |-> <<>>, line |-> "Error loading"]
         ELSE [raises |-> FALSE, value |-> json_load(content).value,
               line |-> "Loaded"]

\* load_data(): the two stores as read from the two files.
load_data(files) ==
    LET analyses == load_file(files[ANALYSES_LOG_FILE])
        events == load_file(files[EVENTS_LOG_FILE])
    IN  [raises |-> analyses.raises \/ events.raises,
         ANALYSES_DB |-> [i \in DOMAIN analyses.value |->
                             [k |-> analyses.value[i].k,
                              v |-> record_from_json(analyses.value[i].v)]],
         EVENTS_DB |-> events.value,
         lines |-> <<analyses.line, events.line>>]

\* The starts of the process so far.
restarts == IF reply.route = "startup" THEN reply.arg ELSE 0

\* The process ends, at any point, and is started again: the module is
\* executed, the stores are the empty dicts, load_data() runs and app.run
\* serves.  The requests that were being served are lost with the process.
Restart ==
    /\ restarts < MaxRestarts
    /\ LET data == load_data(disk)
       IN  /\ ANALYSES_DB' = (IF data.raises THEN <<>> ELSE data.ANALYSES_DB)
           /\ EVENTS_DB' = (IF data.raises THEN <<>> ELSE data.EVENTS_DB)
           /\ reply' = [route |-> "startup", arg |-> restarts + 1,
                        body |-> [status |-> IF data.raises THEN "failed"
                                             ELSE "serving",
                                  lines |-> data.lines]]
    /\ pc' = [r \in Requests |->
                 IF pc[r] \in {"new", "ok", "raised", "rejected"} THEN pc[r]
                 ELSE "killed"]
    /\ frame' = [r \in Requests |-> EmptyDict]
    /\ dump' = [r \in Requests |-> NoDump]
    /\ UNCHANGED <<disk, persist_log, la, uuid, clock>>

NextRestart == Next \/ Restart

SpecRestart == Init /\ [][NextRestart]_vars

\* A snapshot file is missing, or is there and does not parse.
MissingOrCorrupt(file) == disk[file] = <<>> \/ json_load(disk[file]).raises

\* C11: every start of the process completes load_data and serves; a store
\* whose snapshot is missing or corrupt starts empty, and a store whose
\* snapshot is there and valid holds exactly the snapshot's ids and values.
C11_StartupNeverFails ==
    [][reply' # reply /\ reply'.route = "startup" =>
          /\ reply'.body.status = "serving"
          /\ MissingOrCorrupt(ANALYSES_LOG_FILE) => ANALYSES_DB' = <<>>
          /\ MissingOrCorrupt(EVENTS_LOG_FILE) => EVENTS_DB' = <<>>
          /\ ~MissingOrCorrupt(ANALYSES_LOG_FILE) =>
                /\ Len(ANALYSES_DB') = Len(disk[ANALYSES_LOG_FILE]) - 2
                /\ \A i \in DOMAIN ANALYSES_DB' :
                      /\ ANALYSES_DB'[i].k = disk[ANALYSES_LOG_FILE][i + 1].k
                      /\ ANALYSES_DB'[i].v =
                            record_from_json(disk[ANALYSES_LOG_FILE][i + 1].v)
          /\ ~MissingOrCorrupt(EVENTS_LOG_FILE) =>
                /\ Len(EVENTS_DB') = Len(disk[EVENTS_LOG_FILE]) - 2
                /\ \A i \in DOMAIN EVENTS_DB' :
                      /\ EVENTS_DB'[i].k = disk[EVENTS_LOG_FILE][i + 1].k
                      /\ EVENTS_DB'[i].v = disk[EVENTS_LOG_FILE][i + 1].v]_vars

\* The process has started on a record snapshot cut short by the end of the
\* process and on a valid event snapshot that holds an event list.
C11_Witness ==
    /\ reply.route = "startup"
    /\ reply.body = [status |-> "serving", lines |-> <<"Error loading", "Loaded">>]
    /\ ANALYSES_DB = <<>>
    /\ EVENTS_DB # <<>>

\* -------------------------------------------- the statistics of the brands

\* Most records in a store the brand statistics are tried on: enough for six
\* brands of which one is met twice.
MaxBrandRecords == 7

\* The brand names the extractor may give.  Only whether two names are the
\* same matters to get_stats, so a store's brands are named in the order in
\* which they are first met.
BrandNames == <<"Amazon", "Apple", "DHL", "Microsoft", "Netflix", "PayPal">>

\* What impersonatedBrand holds when no brand was found: null, or the word
\* the model answers with.
NoBrand == {None, "None"}

\* What impersonatedBrand of the next record may be, after the records whose
\* brands are given: no brand, a brand met before, or the next new one.
brands_after(brands) ==
    LET met == Cardinality({brands[i] : i \in DOMAIN brands} \ NoBrand)
    IN  NoBrand \cup {BrandNames[j] : j \in 1..(IF met < Len(BrandNames) THEN met + 1
                                                ELSE Len(BrandNames))}

RECURSIVE BrandLists(_)
BrandLists(n) ==
    IF n = 0 THEN {<<>>}
    ELSE UNION {{Append(brands, brand) : brand \in brands_after(brands)} :
                   brands \in BrandLists(n - 1)}

\* The threat scores of the records of a store, by position: 69 and 70 in
\* turn, from either.
ScoreRows == {[i \in 1..MaxBrandRecords |-> 69 + ((i + first) % 2)] : first \in {0, 1}}

store_of_brands(brands, scores) ==
    [i \in DOMAIN brands |->
        [k |-> i, v |-> [id |-> i, status |-> "completed",
                         createdAt |-> 7 * TicksPerDay,
                         threatScore |-> scores[i],
                         category |-> "OTHER",
                         impersonatedBrand |-> brands[i]]]]

InitBrands ==
    /\ clock = 0
    /\ \E n \in 0..MaxBrandRecords : \E brands \in BrandLists(n) : \E scores \in ScoreRows :
          ANALYSES_DB = store_of_brands(brands, scores)
    /\ EVENTS_DB = <<>>
    /\ disk = [f \in {ANALYSES_LOG_FILE, EVENTS_LOG_FILE} |-> <<>>]
    /\ pc = [r \in Requests |-> "new"]
    /\ frame = [r \in Requests |-> EmptyDict]
    /\ dump = [r \in Requests |-> NoDump]
    /\ persist_log = [r \in Requests |-> ""]
    /\ la = LaIdle
    /\ reply = NoReply
    /\ uuid = FreshIds

\* GET /api/stats, on any of these stores.
SpecBrands == InitBrands /\ [][GetStats]_vars

\* The records of a brand, their number and the sum of their threat scores.
BrandRecords(brand) ==
    {i \in DOMAIN ANALYSES_DB : ANALYSES_DB[i].v.impersonatedBrand = brand}

BrandCount(brand) == Cardinality(BrandRecords(brand))

RECURSIVE SumScores(_)
SumScores(ids) ==
    IF ids = {} THEN 0
    ELSE LET i == CHOOSE i \in ids : TRUE
         IN  ANALYSES_DB[i].v.threatScore + SumScores(ids \ {i})

\* Where a brand is first met in the store.
BrandFirstMet(brand) == CHOOSE i \in BrandRecords(brand) : \A j \in BrandRecords(brand) : i <= j

StoredBrands == {ANALYSES_DB[i].v.impersonatedBrand : i \in DOMAIN ANALYSES_DB} \ NoBrand

\* C21: topBrands has at most 5 entries, by count descending and, for equal
\* counts, in the order in which the brands are first met; no entry is for
\* the brand of a record without a brand or with the brand 'None'; no brand
\* left out has a greater count than a brand of the list; and each entry's
\* avgThreatScore is the sum of the threat scores of exactly the records of
\* its brand divided by their number.
C21_TopBrands ==
    reply.route = "stats" =>
        LET top == reply.body.topBrands
        IN  /\ Len(top) <= 5
            /\ \A n \in DOMAIN top :
                  /\ top[n].name \in StoredBrands
                  /\ top[n].count = BrandCount(top[n].name)
                  /\ top[n].avgThreatScore.num * top[n].count =
                        SumScores(BrandRecords(top[n].name)) * top[n].avgThreatScore.den
                  /\ top[n].avgThreatScore.den # 0
            /\ \A m, n \in DOMAIN top :
                  m < n =>
                     \/ top[m].count > top[n].count
                     \/ /\ top[m].count = top[n].count
                        /\ BrandFirstMet(top[m].name) < BrandFirstMet(top[n].name)
            /\ \A brand \in StoredBrands :
                  (\A n \in DOMAIN top : top[n].name # brand) =>
                     \A n \in DOMAIN top : BrandCount(brand) <= top[n].count

\* The statistics have been computed on a store of six brands: the brand met
\* last is met twice and comes first, the others follow in the order in which
\* they were met, and the fifth of them is left out.
C21_Witness ==
    /\ reply.route = "stats"
    /\ Cardinality(StoredBrands) = 6
    /\ Len(reply.body.topBrands) = 5
    /\ reply.body.topBrands[1] =
          [name |-> "PayPal", count |-> 2, avgThreatScore |-> Ratio(139, 2)]
    /\ reply.body.topBrands[5].name = "Microsoft"
    /\ BrandCount("Netflix") = 1

\* ------------------------------------------------- the record's derived fields

\* What the scoring model may answer as scam_type: the words of its prompt,
\* and words that hold several of the terms looked for, in either case.
ScamTypes ==
    {"Phishing", "Malware", "TechSupport scam", "AdvanceFee", "OTHER", "None",
     "phishing", "pHiShInG malware", "Malware scam", "computer virus",
     "Virus via social media", "Romance Scam", "social engineering",
     "Scam then phishing", "Social malware"}

\* The scores on either side of the two thresholds, and the ends of the scale.
RiskScores == {0, 30, 31, 70, 71, 100}

\* The lists of actions the scoring model may add to its answer.
SuppliedActions == {<<>>, <<[title |-> "Report to IT", priority |-> "high"]>>}

\* What ScoringAgent.calculate_score returns when the model answers with
\* JSON: any of the keys may be missing.
ScoredAssessments ==
    [risk_score : RiskScores, scam_type : ScamTypes]
    \cup [risk_score : RiskScores, scam_type : ScamTypes,
          recommended_actions : SuppliedActions]
    \cup [risk_score : RiskScores]
    \cup [scam_type : ScamTypes]

\* The events of a run whose first four stages have returned.
events_before_report(id) ==
    on_completed(
      on_completed(
        on_completed(
          on_completed(
            log_event(SetItem(<<>>, id, <<>>), id, Stages[1], "started", ""),
            id, Stages[1], "output"),
          id, Stages[2], "output"),
        id, Stages[3], "output"),
      id, Stages[4], "output")

\* The first request is in its report stage, with any answer of the scoring
\* model in its locals.
AtReport ==
    /\ ANALYSES_DB = <<>>
    /\ EVENTS_DB = events_before_report(1)
    /\ disk = [f \in {ANALYSES_LOG_FILE, EVENTS_LOG_FILE} |-> <<>>]
    /\ pc = [r \in Requests |-> IF r = 1 THEN "ReportAgent" ELSE "new"]
    /\ \E risk_assessment \in ScoredAssessments :
          frame = [r \in Requests |->
                      IF r = 1
                      THEN [artifact |-> [urls |-> <<>>,
                                          clean_text |-> "Please verify your account"],
                            indicators |-> [brand_impersonation |->
                                               [detected |-> TRUE, brand_name |-> "PayPal"]],
                            link_findings |-> <<>>,
                            risk_assessment |-> risk_assessment]
                      ELSE EmptyDict]
    /\ dump = [r \in Requests |-> NoDump]
    /\ persist_log = [r \in Requests |-> ""]
    /\ la = LaIdle
    /\ reply = NoReply

InitAssemble ==
    /\ clock = 0
    /\ uuid = FreshIds
    /\ AtReport

NextAssemble == \E r \in Requests : Report(r) \/ save_data(r)

SpecAssemble == InitAssemble /\ [][NextAssemble]_vars

\* Two letters are the same but for their case.
SameLetter(a, b) ==
    \/ a = b
    \/ \E j \in DOMAIN LowerCase : {a, b} = {LowerCase[j], UpperCase[j]}

\* term occurs in text, whatever the case of the letters of either.
HasTerm(term, text) ==
    \E i \in 0..(Len(Chars(text)) - Len(Chars(term))) :
        \A j \in DOMAIN Chars(term) : SameLetter(Chars(term)[j], Chars(text)[i + j])

\* The scam type a stored record was made from.
scam_type_of(record) == DictGet(record.mas_artifacts.risk_assessment, "scam_type", "OTHER")

\* C22: a record's category is exactly one of the four of the taxonomy, by
\* the terms its scam type holds in any case: the phishing one whenever
\* 'phishing' occurs, else the malicious-link one whenever 'malware' or
\* 'virus' occurs, else the social-scam one whenever 'scam' or 'social'
\* occurs, else OTHER.
C22_CategoryByPrecedence ==
    \A n \in DOMAIN ANALYSES_DB :
        LET record == ANALYSES_DB[n].v
            text == scam_type_of(record)
        IN  /\ record.category \in {"FAKE_EMAIL_PHISHING", "FAKE_WEBSITE_MALICIOUS_LINK",
                                    "HIDDEN_FRAUD_RING_SOCIAL_SCAM", "OTHER"}
            /\ record.category = "FAKE_EMAIL_PHISHING" <=> HasTerm("phishing", text)
            /\ record.category = "FAKE_WEBSITE_MALICIOUS_LINK" <=>
                  /\ ~HasTerm("phishing", text)
                  /\ HasTerm("Malware", text) \/ HasTerm("Virus", text)
            /\ record.category = "HIDDEN_FRAUD_RING_SOCIAL_SCAM" <=>
                  /\ ~HasTerm("phishing", text)
                  /\ ~(HasTerm("Malware", text) \/ HasTerm("Virus", text))
                  /\ HasTerm("Scam", text) \/ HasTerm("Social", text)

\* A record is stored whose scam type holds a phishing term in mixed case
\* next to a malware term, and its category is the phishing one.
C22_Witness ==
    \E n \in DOMAIN ANALYSES_DB :
        /\ scam_type_of(ANALYSES_DB[n].v) = "pHiShInG malware"
        /\ ANALYSES_DB[n].v.category = "FAKE_EMAIL_PHISHING"

\* What the scoring stage put in a stored record, and its score.
supplied_actions(record) ==
    DictGet(record.mas_artifacts.risk_assessment, "recommended_actions", <<>>)

risk_score_of(record) == DictGet(record.mas_artifacts.risk_assessment, "risk_score", 0)

\* C23: when the scoring stage supplied no action, a record's
\* recommendedActions follows from the score alone: two actions of priority
\* high above 70, one of priority med above 30 and up to 70, one of priority
\* low up to 30; when it supplied actions, they are the record's.
C23_RecommendedActions ==
    \A n \in DOMAIN ANALYSES_DB :
        LET record == ANALYSES_DB[n].v
            actions == record.recommendedActions
            score == risk_score_of(record)
        IN  IF supplied_actions(record) # <<>>
            THEN actions = supplied_actions(record)
            ELSE /\ score > 70 =>
                       Len(actions) = 2 /\ \A a \in DOMAIN actions : actions[a].priority = "high"
                 /\ (30 < score /\ score <= 70) =>
                       Len(actions) = 1 /\ actions[1].priority = "med"
                 /\ score <= 30 =>
                       Len(actions) = 1 /\ actions[1].priority = "low"

\* A record has been stored and saved from a scoring answer with an empty
\* list of actions and the score 70: its one action is the one of priority med.
C23_Witness ==
    /\ pc[1] = "ok"
    /\ \E n \in DOMAIN ANALYSES_DB :
          LET record == ANALYSES_DB[n].v
          IN  /\ "recommended_actions" \in DOMAIN record.mas_artifacts.risk_assessment
              /\ supplied_actions(record) = <<>>
              /\ risk_score_of(record) = 70
              /\ record.recommendedActions =
                    <<[title |-> "Verify sender identity", priority |-> "med"]>>

\* ------------------------------------------- the routes, at their boundary

AnalyzeRoutes == {"email", "url", "file"}

\* What a client may post to a route: the field empty, missing, or given.
\* For the file route the field is the uploaded part, with its file name.
RequestData(route) ==
    CASE route = "email" -> {[text |-> ""], EmptyDict, [text |-> "Dear customer"]}
      [] route = "url" -> {[url |-> ""], EmptyDict, [url |-> "http://a.com/login"]}
      [] route = "file" -> {EmptyDict, [file |-> [filename |-> ""]],
                            [file |-> [filename |-> "mail.eml"]]}

Accepted == [status |-> 200]

\* A mutant of validate: nothing is looked at.
validate_nothing(route, data) == Accepted

\* The checks of analyze_email, analyze_url and analyze_file before
\* run_pipeline is called.
validate(route, data) ==
    CASE route = "email" ->
            IF DictGet(data, "text", "") = ""
            THEN [status |-> 400, error |-> "No text provided"] ELSE Accepted
      [] route = "url" ->
            IF DictGet(data, "url", "") = ""
            THEN [status |-> 400, error |-> "No URL provided"] ELSE Accepted
      [] route = "file" ->
            IF "file" \notin DOMAIN data
            THEN [status |-> 400, error |-> "No file part"]
            ELSE IF data.file.filename = ""
            THEN [status |-> 400, error |-> "No selected file"] ELSE Accepted

\* A request to one of the three routes: answered 400, or run_pipeline is
\* entered: a fresh id, its empty event list, the first stage logged as
\* started.  The request is kept in the locals.
Analyze(r) ==
    /\ Arrived(r)
    /\ \E route \in AnalyzeRoutes : \E data \in RequestData(route) :
          /\ frame' = [frame EXCEPT ![r] = [source_type |-> route, data |-> data]]
          /\ IF validate(route, data).status = 400
             THEN /\ pc' = [pc EXCEPT ![r] = "rejected"]
                  /\ reply' = [route |-> route, arg |-> r, body |-> validate(route, data)]
                  /\ UNCHANGED <<ANALYSES_DB, EVENTS_DB>>
             ELSE /\ pc' = [pc EXCEPT ![r] = Stages[1]]
                  /\ EVENTS_DB' = log_event(SetItem(EVENTS_DB, analysis_id(r), <<>>),
                                            analysis_id(r), Stages[1], "started", "")
                  /\ UNCHANGED <<ANALYSES_DB, reply>>
    /\ UNCHANGED <<disk, dump, persist_log, la, uuid, clock>>

\* A store of up to MaxRecords records with their event lists; the ids of the
\* requests to come are new.
InitBoundary ==
    /\ clock = 0
    /\ \E n \in 0..MaxRecords :
          /\ ANALYSES_DB = store_of([i \in 1..n |->
                                        [createdAt |-> 0, threatScore |-> 70,
                                         category |-> "OTHER"]])
          /\ EVENTS_DB = [i \in 1..n |->
                             [k |-> i, v |-> <<Event("IngestionAgent", "started", "")>>]]
    /\ disk = [f \in {ANALYSES_LOG_FILE, EVENTS_LOG_FILE} |-> <<>>]
    /\ pc = [r \in Requests |-> "new"]
    /\ frame = [r \in Requests |-> EmptyDict]
    /\ dump = [r \in Requests |-> NoDump]
    /\ persist_log = [r \in Requests |-> ""]
    /\ la = LaIdle
    /\ reply = NoReply
    /\ uuid = [r \in Requests |-> MaxRecords + r]

NextBoundary == GetAnalysis \/ \E r \in Requests : Analyze(r)

SpecBoundary == InitBoundary /\ [][NextBoundary]_vars

\* The request of r lacks its required field.
MissingField(r) ==
    /\ frame[r] # EmptyDict
    /\ \/ frame[r].source_type = "email" /\ DictGet(frame[r].data, "text", "") = ""
       \/ frame[r].source_type = "url" /\ DictGet(frame[r].data, "url", "") = ""
       \/ /\ frame[r].source_type = "file"
          /\ \/ "file" \notin DOMAIN frame[r].data
             \/ frame[r].data.file.filename = ""

\* C24: a request that lacks its required field is rejected and has no
\* record and no event list; the step that answers it 400, and the step that
\* answers not-found to the lookup of an id without a record, leave the record
\* store and the event store as they were.
C24_RejectionsLeaveStores ==
    /\ [](\A r \in Requests :
             MissingField(r) =>
                /\ pc[r] = "rejected"
                /\ analysis_id(r) \notin Keys(ANALYSES_DB)
                /\ analysis_id(r) \notin Keys(EVENTS_DB))
    /\ [][(reply' # reply /\ reply'.body.status \in {400, 404}) =>
             UNCHANGED <<ANALYSES_DB, EVENTS_DB>>]_vars
    /\ [][(reply' # reply /\ reply'.route = "get"
            /\ reply'.arg \notin Keys(ANALYSES_DB)) =>
             /\ reply'.body.status = 404
             /\ UNCHANGED <<ANALYSES_DB, EVENTS_DB>>]_vars

\* Of two requests the first was accepted and the second, to the file route
\* with no file part, was rejected; the lookup of an id that is not stored
\* was then answered not-found, on a store that holds records.
C24_Witness ==
    /\ pc[1] = "IngestionAgent"
    /\ pc[2] = "rejected"
    /\ frame[2] = [source_type |-> "file", data |-> EmptyDict]
    /\ reply.route = "get"
    /\ reply.body.status = 404
    /\ Len(ANALYSES_DB) = MaxRecords
    /\ Len(EVENTS_DB) = MaxRecords + 1

\* ------------------------------------------- the evidence tools, called

\* The arguments the tools are called with: the URLs, and none.
ToolUrls == Urls \cup {""}

Domains == {"a.com", "b.org", ""}

\* What the network does to a tool's own operation.
ToolOutcomes == {"ok", "error"}

\* No page is fetched from an empty URL.
CallFetchUrl ==
    /\ reply = NoReply
    /\ \E url \in ToolUrls : \E net \in ToolOutcomes :
          /\ url = "" => net = "error"
          /\ reply' = [route |-> "fetch_url", arg |-> <<url, net>>,
                       body |-> fetch_url(url, net)]
    /\ UNCHANGED <<ANALYSES_DB, EVENTS_DB, run_vars>>

CallWhoisLookup ==
    /\ reply = NoReply
    /\ \E domain \in Domains : \E net \in ToolOutcomes :
          /\ domain = "" => net = "error"
          /\ reply' = [route |-> "whois_lookup", arg |-> <<domain, net>>,
                       body |-> whois_lookup(domain, net)]
    /\ UNCHANGED <<ANALYSES_DB, EVENTS_DB, run_vars>>

CallGetDnsRecords ==
    /\ reply = NoReply
    /\ \E domain \in Domains : \E resolved \in SUBSET {"A", "MX", "NS", "TXT"} :
          /\ domain = "" => resolved = {}
          /\ reply' = [route |-> "get_dns_records", arg |-> <<domain, resolved>>,
                    body |-> get_dns_records(domain, resolved)]
    /\ UNCHANGED <<ANALYSES_DB, EVENTS_DB, run_vars>>

\* The payloads analyze builds for the three endpoints.
McpPayloads(endpoint) ==
    CASE endpoint = "fetch" -> [url : ToolUrls]
      [] endpoint = "signals" -> [url : ToolUrls, html_content : {<<>>, LoginPage}]
      [] endpoint = "whois" -> [domain : Domains]

CallMcp ==
    /\ reply = NoReply
    /\ \E endpoint \in {"fetch", "signals", "whois"} :
       \E payload \in McpPayloads(endpoint) : \E net \in NetOutcomes :
          reply' = [route |-> "_call_mcp", arg |-> <<endpoint, payload, net>>,
                    body |-> _call_mcp(endpoint, payload, net)]
    /\ UNCHANGED <<ANALYSES_DB, EVENTS_DB, run_vars>>

\* Most elements in a page the signal extractor is tried on.
MaxElements == 2

\* The text of an element.
ElementTexts == {"Login to your account", "Please Sign In", "Search our shop"}

\* The pages: sequences of elements, each a form or not, holding a password
\* input or not.  The empty page is the empty string.
Pages ==
    UNION {[1..n -> [tag : {"form", "div"}, password : BOOLEAN, text : ElementTexts]] :
              n \in 0..MaxElements}

\* extract_page_signals(url, html_content), while the network is as net.
CallExtractPageSignals ==
    /\ reply = NoReply
    /\ \E url \in Urls : \E html_content \in Pages : \E net \in ToolOutcomes :
          reply' = [route |-> "extract_page_signals",
                    arg |-> [url |-> url, html_content |-> html_content, net |-> net],
                    body |-> extract_page_signals(url, html_content, net)]
    /\ UNCHANGED <<ANALYSES_DB, EVENTS_DB, run_vars>>

\* The same call of extract_page_signals again, the network being as it is
\* then.
RepeatExtractPageSignals ==
    /\ reply.route = "extract_page_signals"
    /\ \E net \in ToolOutcomes :
          reply' = [reply EXCEPT
                       !.arg.net = net,
                       !.body = extract_page_signals(reply.arg.url,
                                                     reply.arg.html_content, net)]
    /\ UNCHANGED <<ANALYSES_DB, EVENTS_DB, run_vars>>

NextTools ==
    \/ CallFetchUrl
    \/ CallWhoisLookup
    \/ CallGetDnsRecords
    \/ CallMcp
    \/ CallExtractPageSignals
    \/ RepeatExtractPageSignals

\* One call of a tool, with any argument and any outcome of its network
\* operation, and the signal extractor called again with the same arguments.
SpecTools == Init /\ [][NextTools]_vars

\* The payload a tool gives when it succeeds.
SuccessPayload(route, body) ==
    CASE route = "fetch_url" -> {"final_url", "html_content"} \subseteq DOMAIN body
      [] route = "whois_lookup" -> {"domain", "registrar"} \subseteq DOMAIN body
      [] route = "get_dns_records" -> Keys(body) = {"A", "MX", "NS", "TXT"}
      [] route = "_call_mcp" -> ~Raised(body)

\* C25: whatever the argument and whatever fails inside, fetch_url,
\* whois_lookup, get_dns_records and _call_mcp return: either the payload of
\* a success or a payload with an error string, and nothing is raised.
C25_AdaptersNeverRaise ==
    reply.route \in {"fetch_url", "whois_lookup", "get_dns_records", "_call_mcp"} =>
        IF reply.route = "get_dns_records"
        THEN SuccessPayload(reply.route, reply.body)
        ELSE /\ ~Raised(reply.body)
             /\ \/ "error" \in DOMAIN reply.body /\ reply.body.error # ""
                \/ SuccessPayload(reply.route, reply.body)

\* fetch_url has been called and its network operation failed: the payload
\* holds the URL and the error.
C25_Witness ==
    /\ reply.route = "fetch_url"
    /\ reply.arg = <<"http://a.com/login", "error">>
    /\ reply.body = [url |-> "http://a.com/login", error |-> "fetch failed"]

\* The forms of a page, and whether a form's text holds a login word.
FormsOf(page) == {n \in DOMAIN page : page[n].tag = "form"}

LoginWords(text) == HasTerm("login", text) \/ HasTerm("sign in", text)

\* C28: the signal extractor is a function of its two arguments alone: it
\* fetches nothing, two calls with the same URL and content give the same
\* result, and on the empty content the aggregator passes after a failed
\* fetch the result is the signal record with no login form, no password
\* field and no brand keyword, never an error.
C28_ExtractorPure ==
    /\ [](reply.route = "extract_page_signals" /\ reply.arg.html_content = <<>> =>
             reply.body = [login_form_detected |-> FALSE,
                           password_field_detected |-> FALSE,
                           brand_keywords_found |-> <<>>])
    /\ [][(/\ reply.route = "extract_page_signals"
           /\ reply'.route = "extract_page_signals"
           /\ reply'.arg.url = reply.arg.url
           /\ reply'.arg.html_content = reply.arg.html_content) =>
              reply'.body = reply.body]_vars

\* C29: on every page, if a form holds a password input both flags are true;
\* if none does, password_field_detected is false and login_form_detected is
\* true exactly when the text of some form holds 'login' or 'sign in'; so
\* password_field_detected implies login_form_detected.
C29_FormSignals ==
    reply.route = "extract_page_signals" =>
        LET page == reply.arg.html_content
        IN  /\ {"password_field_detected", "login_form_detected"} \subseteq DOMAIN reply.body
            /\ IF \E n \in FormsOf(page) : page[n].password
               THEN reply.body.password_field_detected /\ reply.body.login_form_detected
               ELSE /\ ~reply.body.password_field_detected
                    /\ reply.body.login_form_detected =
                          (\E n \in FormsOf(page) : LoginWords(page[n].text))

\* On every page that is not empty the two flags are as the forms of the page
\* make them.
FormSignalsOfPage ==
    reply.route = "extract_page_signals" /\ reply.arg.html_content # <<>> =>
        C29_FormSignals

\* ----------------------------------------------- claims on the run's outcome

\* C30: when the five stages of a run have logged 'completed', its record is
\* assembled and stored: no event list holds the 'completed' event of the
\* report stage and after it a 'failed' event of the Orchestrator while no
\* record of that id is stored.
C30_CompletedStagesGiveRecord ==
    \A id \in Keys(EVENTS_DB) :
        (\E i \in Positions(events_of(id), "ReportAgent", "completed") :
            \E j \in Positions(events_of(id), "Orchestrator", "failed") : i < j)
        => id \in Keys(ANALYSES_DB)

\* ------------------------------------------------------------ the wall clock

\* datetime.now() reads the host's local wall clock, as a naive local time.
\* Time passes between two readings, and the host may set its clock back
\* between them (the end of daylight saving time, a correction by the time
\* service, an operator): nothing in log_event compares the reading with the
\* last event's.
MaxClock == 2

Tick ==
    /\ clock < MaxClock
    /\ clock' = clock + 1
    /\ UNCHANGED <<ANALYSES_DB, EVENTS_DB, disk, pc, frame, dump, persist_log, la, reply, uuid>>

SetBack ==
    /\ \E earlier \in 0..(clock - 1) : clock' = earlier
    /\ UNCHANGED <<ANALYSES_DB, EVENTS_DB, disk, pc, frame, dump, persist_log, la, reply, uuid>>

\* A run in its report stage, its earlier events stamped with what the clock
\* reads now.
InitClock ==
    /\ clock \in 0..MaxClock
    /\ uuid = FreshIds
    /\ AtReport

NextClock == Tick \/ SetBack \/ NextAssemble

SpecClock == InitClock /\ [][NextClock]_vars

\* The request whose thread takes the step.
Acting(r) == pc'[r] # pc[r]

EventsBefore(id) == IF id \in Keys(EVENTS_DB) THEN events_of(id) ELSE <<>>

\* Every step leaves each event list a prefix of what it becomes.
GrowsAtEnd ==
    \A id \in Keys(EVENTS_DB) :
        /\ id \in Keys(EVENTS_DB')
        /\ Len(events_of(id)) <= Len(Lookup(EVENTS_DB', id))
        /\ SubSeq(Lookup(EVENTS_DB', id), 1, Len(events_of(id))) = events_of(id)

\* A step changes no list but that of the run that takes it.
OwnListOnly ==
    \A id \in Keys(EVENTS_DB') :
        Lookup(EVENTS_DB', id) # EventsBefore(id)
        => \E r \in Requests : Acting(r) /\ analysis_id(r) = id

TimestampsOrdered ==
    \A id \in Keys(EVENTS_DB) :
        \A i, j \in DOMAIN events_of(id) :
            i < j => events_of(id)[i].timestamp <= events_of(id)[j].timestamp

\* With the clock standing still, the lists of concurrent runs grow at their
\* end, each by its own run's steps.
EventsAppendedByOwner == [][GrowsAtEnd /\ OwnListOnly]_vars

\* C26: an event list only ever grows at its end, the timestamps within a list
\* never decrease, and every event is appended to the list of the run that
\* emitted it.
C26_EventsAppendOnly ==
    /\ [][GrowsAtEnd]_vars
    /\ []TimestampsOrdered
    /\ [][OwnListOnly]_vars

\* ------------------------------------------------------------- termination

\* Each request is served by a thread of its own, which the interpreter keeps
\* scheduling; every call the thread makes returns or raises. So a step of
\* run_pipeline that stays possible is taken.
\*
\* A request arrives while the run of an earlier one is in its report stage.
LiveAssessments == {[risk_score |-> 71, scam_type |-> "Phishing"], [risk_score |-> 30]}

InitLive ==
    /\ clock = 0
    /\ uuid = FreshIds
    /\ AtReport
    /\ frame[1].risk_assessment \in LiveAssessments

SpecLive == InitLive /\ [][Next]_vars /\ \A r \in Requests : WF_vars(run_pipeline(r))

\* uuid4 draws its ids at random: nothing in run_pipeline checks that an id is
\* new, so the id of the request that arrives while a run is in its report
\* stage may be that run's.
InitUuid ==
    /\ clock = 0
    /\ uuid \in [Requests -> Requests]
    /\ uuid[1] = 1
    /\ AtReport
    /\ frame[1].risk_assessment \in LiveAssessments

SpecUuid == InitUuid /\ [][Next]_vars

Started(r) == pc[r] \notin {"new", "rejected"}

Terminated(r) == pc[r] \in {"ok", "raised"}

\* The record of the run is in the store and no 'failed' event was logged.
EndedStored(id) ==
    /\ id \in Keys(ANALYSES_DB)
    /\ id \in Keys(EVENTS_DB)
    /\ \A i \in DOMAIN events_of(id) : events_of(id)[i].action # "failed"

\* The list of the run ends with the orchestrator's 'failed' event and no
\* record of the run is in the store.
EndedFailed(id) ==
    /\ id \notin Keys(ANALYSES_DB)
    /\ id \in Keys(EVENTS_DB)
    /\ events_of(id) # <<>>
    /\ Is(events_of(id)[Len(events_of(id))], "Orchestrator", "failed")

\* C27: every started analysis ends, in exactly one of two ways: its record is
\* stored and its list has no 'failed' event, or its list ends with the
\* orchestrator's 'failed' event and no record of it is stored.
C27_RunEndsOneWay ==
    /\ [](\A r \in Requests :
            Terminated(r) =>
                (EndedStored(analysis_id(r)) # EndedFailed(analysis_id(r))))
    /\ \A r \in Requests : Started(r) ~> Terminated(r)

\* One run has ended with its record stored and the other in the except
\* branch.
C27_Witness ==
    \E r, q \in Requests :
        /\ pc[r] = "ok" /\ EndedStored(analysis_id(r))
        /\ pc[q] = "raised" /\ EndedFailed(analysis_id(q))

\* --------------------------------------------- the two stores, in one process

\* C31: while the process lives, every id of the record store is an id of the
\* event store, every stored record has status 'completed', and no id whose
\* event list has an Orchestrator 'failed' event has a record.
C31_StoresAgree ==
    /\ Keys(ANALYSES_DB) \subseteq Keys(EVENTS_DB)
    /\ \A i \in DOMAIN ANALYSES_DB : ANALYSES_DB[i].v.status = "completed"
    /\ \A id \in Keys(EVENTS_DB) :
          Positions(events_of(id), "Orchestrator", "failed") # {}
          => id \notin Keys(ANALYSES_DB)

\* The store holds the record of one run while the list of the other run,
\* which both ran at once, has the orchestrator's 'failed' event.
C31_Witness ==
    /\ Len(ANALYSES_DB) = 1
    /\ Cardinality(Keys(EVENTS_DB)) = 2
    /\ \E id \in Keys(EVENTS_DB) :
          /\ Positions(events_of(id), "Orchestrator", "failed") # {}
          /\ Len(events_of(id)) > 2

\* ------------------------------------------------ the two stores, reloaded

\* C32: after load_data has run at a restart, whatever runs, writes and
\* failures came before it, every id of the loaded record store has an event
\* list in the loaded event store.
C32_SnapshotsAgree ==
    restarts > 0 => Keys(ANALYSES_DB) \subseteq Keys(EVENTS_DB)

\* ------------------------------------- high risk, counted and recommended

\* The statistics are asked for while a run is in its report stage, or after
\* it has stored its record.
NextRisk == NextAssemble \/ GetStats

SpecRisk == InitAssemble /\ [][NextRisk]_vars

\* The record received the two actions of priority high.
TwoHighActions(record) ==
    /\ Len(record.recommendedActions) = 2
    /\ \A a \in DOMAIN record.recommendedActions :
          record.recommendedActions[a].priority = "high"

\* The record counts as high risk in the statistics, going by its actions: a
\* record with the default actions counts when its score is exactly 70 or it
\* received the two actions of priority high.
CountsByActions(record) ==
    IF supplied_actions(record) = <<>>
    THEN record.threatScore = 70 \/ TwoHighActions(record)
    ELSE record.threatScore >= 70

\* C33: a record with score exactly 70 and the default actions is counted in
\* highRiskCount and has the single action of priority med; at every other
\* score a record with the default actions is counted in highRiskCount if and
\* only if it received the two actions of priority high.
C33_HighRiskBoundary ==
    /\ [](\A n \in DOMAIN ANALYSES_DB :
            LET record == ANALYSES_DB[n].v
            IN  (record.threatScore = 70 /\ supplied_actions(record) = <<>>) =>
                    /\ Len(record.recommendedActions) = 1
                    /\ record.recommendedActions[1].priority = "med")
    /\ [][(reply' # reply /\ reply'.route = "stats") =>
            reply'.body.highRiskCount =
                Cardinality({n \in DOMAIN ANALYSES_DB : CountsByActions(ANALYSES_DB[n].v)})]_vars

\* The statistics count one high-risk record, on a store whose only record
\* has score 70, the default actions, and the single action of priority med.
C33_Witness ==
    /\ reply.route = "stats"
    /\ reply.body.highRiskCount = 1
    /\ Len(ANALYSES_DB) = 1
    /\ ANALYSES_DB[1].v.threatScore = 70
    /\ supplied_actions(ANALYSES_DB[1].v) = <<>>
    /\ ANALYSES_DB[1].v.recommendedActions =
          <<[title |-> "Verify sender identity", priority |-> "med"]>>

====
